---- MODULE Spec2Model ----
(***************************************************************************)
(* Model of the signal-to-order pipeline of the MT5 gateway:               *)
(*   app/mt5/trading.py   TradingEngine (idempotency guard, sizing,        *)
(*                        stop/target resolution, execute_signal)          *)
(*   app/mt5/account.py   AccountManager (margin estimate)                 *)
(*   app/mt5/__init__.py  MT5Client (symbol cache, account info)           *)
(*                                                                         *)
(* Python floats are modelled as exact rationals <<n, d>> (d > 0, lowest   *)
(* terms).  Optional values are sequences of length 0 (None) or 1.         *)
(* Time (datetime.utcnow()) is an integer number of seconds.               *)
(***************************************************************************)
EXTENDS Integers, Sequences, FiniteSets, TLC

(***************************************************************************)
(* Bounds of the model.                                                    *)
(***************************************************************************)
\* number of request threads, each making execute_signal calls one after
\* the other
NumThreads == 2
\* number of times the clock advances while one caller makes its calls
MaxTicks == 3
\* number of times the clock advances while the threads run concurrently
ConcurrentTicks == 1

Threads == 1..NumThreads

(***************************************************************************)
(* Optional values and Python truthiness.                                  *)
(***************************************************************************)
None == <<>>
Some(x) == <<x>>
IsNone(o) == o = None
Val(o) == o[1]

(***************************************************************************)
(* Exact rationals standing for Python floats.                             *)
(***************************************************************************)
Abs(x) == IF x < 0 THEN -x ELSE x

RECURSIVE GCD(_, _)
GCD(a, b) == IF b = 0 THEN a ELSE GCD(b, a % b)

\* n/d in lowest terms with a positive denominator (d # 0)
Rat(n, d) ==
    LET g == GCD(Abs(n), Abs(d))
        s == IF d < 0 THEN -1 ELSE 1
    IN  <<(s * n) \div g, (s * d) \div g>>

RInt(n) == <<n, 1>>
RZero == RInt(0)
RMul(a, b) ==
    LET x == Rat(a[1], b[2])
        y == Rat(b[1], a[2])
    IN  Rat(x[1] * y[1], x[2] * y[2])
\* b # 0
RDiv(a, b) == RMul(a, Rat(b[2], b[1]))
RAdd(a, b) ==
    LET g == GCD(a[2], b[2])
    IN  Rat(a[1] * (b[2] \div g) + b[1] * (a[2] \div g), (a[2] \div g) * b[2])
RNeg(a) == <<-a[1], a[2]>>
RSub(a, b) == RAdd(a, RNeg(b))
RAbs(a) == <<Abs(a[1]), a[2]>>
RLt(a, b) == a[1] * b[2] < b[1] * a[2]
RLe(a, b) == a[1] * b[2] <= b[1] * a[2]
RMaxOf(a, b) == IF RLt(a, b) THEN b ELSE a
RMinOf(a, b) == IF RLt(b, a) THEN b ELSE a

\* Python 3 round(x) of a float: nearest integer, ties to the even one
PyRound(a) ==
    LET fl == a[1] \div a[2]
        r2 == 2 * (a[1] - fl * a[2])
    IN  IF r2 < a[2] THEN fl
        ELSE IF r2 > a[2] THEN fl + 1
        ELSE IF fl % 2 = 0 THEN fl ELSE fl + 1

\* truthiness of an Optional[float] / Optional[int]: None and 0 are falsy
Truthy(o) == ~IsNone(o) /\ Val(o)[1] # 0

(***************************************************************************)
(* Configuration (app/config.py) and the engine's retention window.        *)
(***************************************************************************)
MIN_LOT_SIZE == Rat(1, 100)
MAX_LOT_SIZE == Rat(100, 1)
LOT_STEP == Rat(1, 100)
STOP_LEVEL_PIPS == 5
idempotency_ttl == 3600

\* MockMT5Client.__init__ (mock.py 56): the first order number
FIRST_ORDER == 1000000

\* SecurityManager (app/security/__init__.py 42, 74): the lifetime of a
\* nonce record in seconds, and the length a nonce must have
nonce_ttl == 300
NONCE_MIN_LENGTH == 16

\* the nonces of the requests: of 15, 16 and 17 characters
Nonces == {"nonce-012345678", "nonce-0123456789", "nonce-0123456789a"}

(***************************************************************************)
(* Broker data: one symbol, one account, one quote.                        *)
(***************************************************************************)
\* SymbolInfo as MT5Client.get_symbol_info builds it, plus the margin fields
\* AccountManager.get_margin_info reads
EURUSD ==
    [name |-> "EURUSD", point |-> Rat(1, 100000), tick_value |-> RInt(1),
     contract_size |-> RInt(100000), margin_required |-> RZero,
     margin_mode |-> "FOREX", margin_rate |-> RInt(1)]

\* the dict MT5Client.get_account_info returns (the fields the core reads)
AccountInfo ==
    [balance |-> RInt(10000), free_margin |-> RInt(4000), leverage |-> RInt(100)]

\* mt5.symbol_info_tick: 1.09990 / 1.10000
Tick == [bid |-> Rat(109990, 100000), ask |-> Rat(110000, 100000)]

(***************************************************************************)
(* TradingEngine.calculate_lot_size (trading.py 87-135).  symbol_info and  *)
(* account_info are what get_symbol_info / get_account_info returned       *)
(* (None when the lookup failed).  The result is an Optional lot size.     *)
(***************************************************************************)
risk_amount_of(risk_config, balance) ==
    LET risk_amount ==
            IF Truthy(risk_config.fixed_amount)
            THEN Val(risk_config.fixed_amount)
            ELSE RMul(balance, RDiv(risk_config.percent, RInt(100)))
        max_risk == RMul(balance, RDiv(risk_config.max_risk_per_trade, RInt(100)))
    IN  RMinOf(risk_amount, max_risk)

loss_per_lot_of(symbol_info, sl_points) ==
    LET point_value == RMul(symbol_info.tick_value, symbol_info.contract_size)
    IN  RMul(RMul(sl_points, symbol_info.point), point_value)

\* self.config as app/config.py sets it
DefaultConfig ==
    [MIN_LOT_SIZE |-> MIN_LOT_SIZE, MAX_LOT_SIZE |-> MAX_LOT_SIZE,
     LOT_STEP |-> LOT_STEP]

\* calculate_lot_size of an engine constructed with `config`
calculate_lot_size_config(config, symbol_info, account_info, risk_config, sl_points) ==
    IF IsNone(symbol_info) THEN None
    ELSE IF IsNone(account_info) THEN None
    ELSE
      LET risk_amount == risk_amount_of(risk_config, Val(account_info).balance)
          loss_per_lot == loss_per_lot_of(Val(symbol_info), sl_points)
      IN  IF RLe(loss_per_lot, RZero) THEN None
          ELSE
            LET raw == RDiv(risk_amount, loss_per_lot)
                clamped == RMinOf(RMaxOf(raw, config.MIN_LOT_SIZE),
                                  config.MAX_LOT_SIZE)
            IN  Some(RMul(RInt(PyRound(RDiv(clamped, config.LOT_STEP))),
                          config.LOT_STEP))

calculate_lot_size(symbol_info, account_info, risk_config, sl_points) ==
    calculate_lot_size_config(DefaultConfig, symbol_info, account_info,
                              risk_config, sl_points)

(***************************************************************************)
(* TradingEngine.calculate_sl_tp_prices (trading.py 137-194).  The result  *)
(* is the pair <<sl_price, tp_price>> of Optional prices.                  *)
(***************************************************************************)
\* fault: the explicit stop price tested before the pips
resolve_sl_price_first(symbol_info, side, entry_price, sl_config) ==
    IF Truthy(sl_config.price) THEN sl_config.price
    ELSE IF Truthy(sl_config.pips)
    THEN LET pip_value == RMul(Val(sl_config.pips), symbol_info.point)
         IN  IF side = "BUY" THEN Some(RSub(entry_price, pip_value))
                             ELSE Some(RAdd(entry_price, pip_value))
    ELSE None

resolve_sl(symbol_info, side, entry_price, sl_config) ==
    IF Truthy(sl_config.pips)
    THEN LET pip_value == RMul(Val(sl_config.pips), symbol_info.point)
         IN  IF side = "BUY" THEN Some(RSub(entry_price, pip_value))
                             ELSE Some(RAdd(entry_price, pip_value))
    ELSE IF Truthy(sl_config.price) THEN sl_config.price
    ELSE None

\* fault: the explicit target price tested before the pips
resolve_tp_price_first(symbol_info, side, entry_price, tp_config, sl_price) ==
    IF Truthy(tp_config.price) THEN tp_config.price
    ELSE IF Truthy(tp_config.pips)
    THEN LET pip_value == RMul(Val(tp_config.pips), symbol_info.point)
         IN  IF side = "BUY" THEN Some(RAdd(entry_price, pip_value))
                             ELSE Some(RSub(entry_price, pip_value))
    ELSE IF Truthy(tp_config.risk_reward_ratio) /\ Truthy(sl_price)
    THEN LET risk == RAbs(RSub(entry_price, Val(sl_price)))
             reward == RMul(risk, Val(tp_config.risk_reward_ratio))
         IN  IF side = "BUY" THEN Some(RAdd(entry_price, reward))
                             ELSE Some(RSub(entry_price, reward))
    ELSE None

resolve_tp(symbol_info, side, entry_price, tp_config, sl_price) ==
    IF Truthy(tp_config.pips)
    THEN LET pip_value == RMul(Val(tp_config.pips), symbol_info.point)
         IN  IF side = "BUY" THEN Some(RAdd(entry_price, pip_value))
                             ELSE Some(RSub(entry_price, pip_value))
    ELSE IF Truthy(tp_config.price) THEN tp_config.price
    ELSE IF Truthy(tp_config.risk_reward_ratio) /\ Truthy(sl_price)
    THEN LET risk == RAbs(RSub(entry_price, Val(sl_price)))
             reward == RMul(risk, Val(tp_config.risk_reward_ratio))
         IN  IF side = "BUY" THEN Some(RAdd(entry_price, reward))
                             ELSE Some(RSub(entry_price, reward))
    ELSE None

\* fault: the minimum distance enforced in the BUY direction for either side
enforce_min_distance_buy_only(symbol_info, side, entry_price, sl_price, tp_price) ==
    LET min_distance == RMul(RInt(STOP_LEVEL_PIPS), symbol_info.point)
        sl == IF Truthy(sl_price)
                 /\ RLt(RAbs(RSub(entry_price, Val(sl_price))), min_distance)
              THEN Some(RSub(entry_price, min_distance))
              ELSE sl_price
        tp == IF Truthy(tp_price)
                 /\ RLt(RAbs(RSub(entry_price, Val(tp_price))), min_distance)
              THEN Some(RAdd(entry_price, min_distance))
              ELSE tp_price
    IN  <<sl, tp>>

enforce_min_distance(symbol_info, side, entry_price, sl_price, tp_price) ==
    LET min_distance == RMul(RInt(STOP_LEVEL_PIPS), symbol_info.point)
        sl == IF Truthy(sl_price)
                 /\ RLt(RAbs(RSub(entry_price, Val(sl_price))), min_distance)
              THEN IF side = "BUY" THEN Some(RSub(entry_price, min_distance))
                                   ELSE Some(RAdd(entry_price, min_distance))
              ELSE sl_price
        tp == IF Truthy(tp_price)
                 /\ RLt(RAbs(RSub(entry_price, Val(tp_price))), min_distance)
              THEN IF side = "BUY" THEN Some(RAdd(entry_price, min_distance))
                                   ELSE Some(RSub(entry_price, min_distance))
              ELSE tp_price
    IN  <<sl, tp>>

\* fault: the minimum distance applied to the stop before the target is
\* resolved, so that a risk:reward target follows the moved stop
calculate_sl_tp_prices_stop_first(symbol_info, side, entry_price, sl_config, tp_config) ==
    IF IsNone(symbol_info) THEN <<None, None>>
    ELSE
      LET sl_price == enforce_min_distance(Val(symbol_info), side, entry_price,
                          resolve_sl(Val(symbol_info), side, entry_price,
                                     sl_config), None)[1]
          tp_price == resolve_tp(Val(symbol_info), side, entry_price, tp_config,
                                 sl_price)
      IN  enforce_min_distance(Val(symbol_info), side, entry_price, sl_price,
                               tp_price)

calculate_sl_tp_prices(symbol_info, side, entry_price, sl_config, tp_config) ==
    IF IsNone(symbol_info) THEN <<None, None>>
    ELSE
      LET sl_price == resolve_sl(Val(symbol_info), side, entry_price, sl_config)
          tp_price == resolve_tp(Val(symbol_info), side, entry_price, tp_config,
                                 sl_price)
      IN  enforce_min_distance(Val(symbol_info), side, entry_price, sl_price,
                               tp_price)

(***************************************************************************)
(* AccountManager.calculate_margin_required / check_margin_sufficient      *)
(* (account.py 92-142).  margin_info is the symbol's margin data (None     *)
(* when mt5.symbol_info failed), account_summary the account (None when    *)
(* get_account_info failed).                                               *)
(***************************************************************************)
calculate_margin_required(margin_info, account_summary, volume) ==
    IF IsNone(margin_info) THEN None
    ELSE IF Val(margin_info).margin_mode = "FOREX"
    THEN IF IsNone(account_summary) THEN None
         ELSE Some(RDiv(RMul(Val(margin_info).contract_size, volume),
                        Val(account_summary).leverage))
    ELSE IF Val(margin_info).margin_mode = "FUTURES"
    THEN Some(RMul(RMul(Val(margin_info).contract_size, volume),
                   Val(margin_info).margin_rate))
    ELSE Some(RMul(Val(margin_info).margin_required, volume))

\* fault: free margin equal to the required margin reported insufficient
check_margin_sufficient_strict(margin_info, account_summary, volume) ==
    IF IsNone(account_summary) THEN FALSE
    ELSE
      LET required_margin ==
              calculate_margin_required(margin_info, account_summary, volume)
      IN  IF IsNone(required_margin) THEN FALSE
          ELSE RLt(Val(required_margin), Val(account_summary).free_margin)

check_margin_sufficient(margin_info, account_summary, volume) ==
    IF IsNone(account_summary) THEN FALSE
    ELSE
      LET required_margin ==
              calculate_margin_required(margin_info, account_summary, volume)
      IN  IF IsNone(required_margin) THEN FALSE
          ELSE RLe(Val(required_margin), Val(account_summary).free_margin)

(***************************************************************************)
(* Signals.  A TradingSignal carries the fields execute_signal reads.      *)
(***************************************************************************)
Keys == {"", "k1", "k2"}

RiskOnePercent ==
    [percent |-> RInt(1), fixed_amount |-> None, max_risk_per_trade |-> RInt(2)]

NoTarget == [pips |-> None, price |-> None, risk_reward_ratio |-> None]

\* side, stop spec and target spec of the signals the callers send
SignalShapes ==
    { \* 20 pip stop, 40 pip target: 5.00 lots
      [side |-> "BUY", risk |-> RiskOnePercent,
       sl |-> [pips |-> Some(RInt(20)), price |-> None],
       tp |-> [pips |-> Some(RInt(40)), price |-> None,
               risk_reward_ratio |-> None]],
      \* 100 pip stop, target by risk:reward 2: 1.00 lot
      [side |-> "SELL", risk |-> RiskOnePercent,
       sl |-> [pips |-> Some(RInt(100)), price |-> None],
       tp |-> [pips |-> None, price |-> None,
               risk_reward_ratio |-> Some(RInt(2))]],
      \* no stop at all (the shape post_order builds)
      [side |-> "BUY", risk |-> RiskOnePercent,
       sl |-> [pips |-> None, price |-> None], tp |-> NoTarget],
      \* explicit stop price equal to the ask: distance 0 for a BUY
      [side |-> "BUY", risk |-> RiskOnePercent,
       sl |-> [pips |-> None, price |-> Some(Tick.ask)], tp |-> NoTarget] }

Signals ==
    { [idempotency_key |-> k, symbol |-> "EURUSD", side |-> sh.side,
       risk |-> sh.risk, sl |-> sh.sl, tp |-> sh.tp, magic_number |-> 0,
       comment |-> "sig"] : k \in Keys, sh \in SignalShapes }

(***************************************************************************)
(* OrderResult (trading.py 64-75) and the results execute_signal builds.   *)
(***************************************************************************)
OrderResult(success, order_id, position_id, executed_price, sl_price, tp_price, lot_size, error_message) ==
    [success |-> success, order_id |-> order_id, position_id |-> position_id,
     executed_price |-> executed_price, sl_price |-> sl_price,
     tp_price |-> tp_price, lot_size |-> lot_size,
     error_message |-> error_message]

Failed(error_message) ==
    OrderResult(FALSE, None, None, None, None, None, None, Some(error_message))

\* the messages, with the umlauts transliterated
MsgDuplicate == "Idempotency-Key bereits verwendet"
MsgSymbol(symbol) == "Symbol " \o symbol \o " nicht verfuegbar"
MsgSymbolInfo(symbol) == "Symbol-Info fuer " \o symbol \o " nicht verfuegbar"
MsgPrice(symbol) == "Aktueller Preis fuer " \o symbol \o " nicht verfuegbar"
MsgLotSize == "Lot-Groesse konnte nicht berechnet werden"
\* fault: the rejection message without the broker's comment
MsgOrderFailed_no_comment(comment) == "Order fehlgeschlagen"
\* trading.py 294-297
MsgOrderFailed(comment) == "Order fehlgeschlagen: " \o comment
\* trading.py 311-316: the handler of the try block around the whole call
MsgInternal(e) == "Interner Fehler: " \o e
\* fault: a handler that re-raises: the call hands no OrderResult back
except_Exception_reraise(e) == None
except_Exception(e) == Some(Failed(MsgInternal(e)))

(***************************************************************************)
(* What mt5.order_send can do: return a result object (retcode DONE or a   *)
(* refusal with the broker's comment), return None, or raise.              *)
(***************************************************************************)
OrderSendOutcomes ==
    { [kind |-> "result", retcode |-> "TRADE_RETCODE_DONE",
       comment |-> "Request executed"],
      [kind |-> "result", retcode |-> "TRADE_RETCODE_NO_MONEY",
       comment |-> "No money"],
      [kind |-> "result", retcode |-> "TRADE_RETCODE_REJECT",
       comment |-> "Request rejected"],
      [kind |-> "none", retcode |-> "", comment |-> ""],
      [kind |-> "raise", retcode |-> "", comment |-> "timeout"] }

(***************************************************************************)
(* State.  A thread is a request worker: it enters execute_signal with a   *)
(* signal, runs it to its return, hands the result to its caller and is    *)
(* free for the next call.                                                 *)
(***************************************************************************)
VARIABLES
    now,                \* datetime.utcnow(), seconds
    idempotency_cache,  \* TradingEngine.idempotency_cache: key -> first seen
    pc,                 \* per thread: position in execute_signal
    signal,             \* per thread: Optional TradingSignal of its call
    frame,              \* per thread: local variables of its call
    result,             \* per thread: Optional OrderResult returned
    hist,               \* per thread: what its call did so far (history)
    admits,             \* per key: the latest record written (history)
    calc,               \* the last direct call of a function: its name,
                        \* arguments and value
    is_connected,       \* MT5Client.is_connected
    mock_client,        \* MockMT5Client: positions and order_counter
    mock_idempotency_cache, \* MockTradingEngine.idempotency_cache
    nonce_cache         \* SecurityManager.nonce_cache: nonce -> first seen

vars == <<now, idempotency_cache, pc, signal, frame, result, hist, admits,
          calc, is_connected, mock_client, mock_idempotency_cache,
          nonce_cache>>

\* what the trading engine and the MT5 client never touch
elsewhere == <<mock_client, mock_idempotency_cache, nonce_cache>>

TickSeconds == idempotency_ttl \div 2

\* a dict with keys among Keys: key -> Optional value (None: key not in dict)
EmptyDict == [k \in Keys |-> None]
Has(d, k) == d[k] # None
Size(d) == Cardinality({k \in Keys : Has(d, k)})

EmptyFrame ==
    [cutoff |-> 0, items |-> EmptyDict, iter |-> "", current_price |-> None,
     lot_size |-> None, sl_price |-> None, tp_price |-> None]

\* checked:     the membership test of the guard ran
\* prior:       the latest record of the call's key written before that test:
\*              [age: its age at the test, sent: its call reached order_send]
\* recorded:    this call wrote its record
\* admitted:    validate_idempotency returned True
\* stages:      the stages run, in order
\* broker_calls, sends: broker-facing calls made, order_send calls made
\* request, reply: what was passed to order_send and what it did
\* raised:      the exception a collaborator raised
EmptyHist ==
    [checked |-> FALSE, prior |-> None, recorded |-> FALSE,
     admitted |-> FALSE, stages |-> <<>>, broker_calls |-> 0, sends |-> 0,
     request |-> None, reply |-> None, raised |-> None]

\* no calculation was called directly
NoCall == [fn |-> "", args |-> <<>>, value |-> None]

Init ==
    /\ now = 0
    /\ idempotency_cache = EmptyDict
    /\ pc = [c \in Threads |-> "idle"]
    /\ signal = [c \in Threads |-> None]
    /\ frame = [c \in Threads |-> EmptyFrame]
    /\ result = [c \in Threads |-> None]
    /\ hist = [c \in Threads |-> EmptyHist]
    /\ admits = [k \in Keys |-> None]
    /\ calc = NoCall
    /\ is_connected = FALSE
    /\ mock_client = [positions |-> <<>>, order_counter |-> FIRST_ORDER]
    /\ mock_idempotency_cache = EmptyDict
    /\ nonce_cache = [n \in Nonces |-> None]

Busy == {c \in Threads : pc[c] # "idle"}

\* the latest record of key k as a call that tests k now sees it
PriorOf(k) ==
    IF IsNone(admits[k]) THEN None
    ELSE Some([age |-> now - Val(admits[k]).at, sent |-> Val(admits[k]).sent])
Key(c) == Val(signal[c]).idempotency_key

Step(c, stage) ==
    [hist[c] EXCEPT !.stages = Append(@, stage)]

\* the call returns r: its locals are gone
Return(c, r, h) ==
    /\ pc' = [pc EXCEPT ![c] = "done"]
    /\ result' = [result EXCEPT ![c] = r]
    /\ frame' = [frame EXCEPT ![c] = EmptyFrame]
    /\ hist' = [hist EXCEPT ![c] = h]

\* trading.py 311-316: an exception e raised in the try block
Raise(c, e, h) ==
    Return(c, except_Exception(e), [h EXCEPT !.raised = Some(e)])

(***************************************************************************)
(* A request thread enters execute_signal with signal s (routes.py 87-88,  *)
(* 157-158).  At most `limit` threads are busy.  The free threads are      *)
(* interchangeable: the lowest one takes the call.                         *)
(***************************************************************************)
execute_signal_enter(c, s, limit) ==
    /\ pc[c] = "idle"
    /\ \A d \in Threads : d < c => pc[d] # "idle"
    /\ Cardinality(Busy) < limit
    /\ pc' = [pc EXCEPT ![c] = "validate"]
    /\ signal' = [signal EXCEPT ![c] = Some(s)]
    /\ UNCHANGED <<calc, is_connected, elsewhere, now, idempotency_cache, frame, result, hist, admits>>

\* the caller takes the OrderResult (routes.py 99-113); the thread is free
respond(c) ==
    /\ pc[c] = "done"
    /\ pc' = [pc EXCEPT ![c] = "idle"]
    /\ signal' = [signal EXCEPT ![c] = None]
    /\ result' = [result EXCEPT ![c] = None]
    /\ hist' = [hist EXCEPT ![c] = EmptyHist]
    /\ UNCHANGED <<calc, is_connected, elsewhere, now, idempotency_cache, frame, admits>>

(***************************************************************************)
(* validate_idempotency (trading.py 196-215), one action per access to the *)
(* shared dict.                                                            *)
(***************************************************************************)
\* fault: the guard without the empty-key shortcut of 198-199
validate_idempotency_check_no_shortcut(c) ==
    /\ pc[c] = "validate"
    /\ LET h == [Step(c, "key_check") EXCEPT !.checked = TRUE,
                                              !.prior = PriorOf(Key(c))]
       IN  IF Has(idempotency_cache, Key(c))
           THEN Return(c, Some(Failed(MsgDuplicate)), h)
           ELSE /\ pc' = [pc EXCEPT ![c] = "v_insert"]
                /\ hist' = [hist EXCEPT ![c] = h]
                /\ UNCHANGED <<result, frame>>
    /\ UNCHANGED <<calc, is_connected, elsewhere, now, idempotency_cache, signal, admits>>

\* fault: a rejected key has its first-seen stamp refreshed
validate_idempotency_check_touch(c) ==
    /\ pc[c] = "validate"
    /\ LET h == [Step(c, "key_check") EXCEPT !.checked = TRUE,
                                              !.prior = PriorOf(Key(c))]
       IN  IF Key(c) = ""
           THEN /\ pc' = [pc EXCEPT ![c] = "subscribe"]
                /\ hist' = [hist EXCEPT ![c] = [h EXCEPT !.admitted = TRUE]]
                /\ UNCHANGED <<result, frame, idempotency_cache>>
           ELSE IF Has(idempotency_cache, Key(c))
           THEN /\ Return(c, Some(Failed(MsgDuplicate)), h)
                /\ idempotency_cache' =
                      [idempotency_cache EXCEPT ![Key(c)] = Some(now)]
           ELSE /\ pc' = [pc EXCEPT ![c] = "v_insert"]
                /\ hist' = [hist EXCEPT ![c] = h]
                /\ UNCHANGED <<result, frame, idempotency_cache>>
    /\ UNCHANGED <<calc, is_connected, elsewhere, now, signal, admits>>

\* 198-203: the empty-key shortcut and the membership test
validate_idempotency_check(c) ==
    /\ pc[c] = "validate"
    /\ LET h == [Step(c, "key_check") EXCEPT !.checked = TRUE,
                                              !.prior = PriorOf(Key(c))]
       IN  IF Key(c) = ""
           THEN /\ pc' = [pc EXCEPT ![c] = "subscribe"]
                /\ hist' = [hist EXCEPT ![c] = [h EXCEPT !.admitted = TRUE]]
                /\ UNCHANGED <<result, frame>>
           ELSE IF Has(idempotency_cache, Key(c))
           THEN Return(c, Some(Failed(MsgDuplicate)), h)
           ELSE /\ pc' = [pc EXCEPT ![c] = "v_insert"]
                /\ hist' = [hist EXCEPT ![c] = h]
                /\ UNCHANGED <<result, frame>>
    /\ UNCHANGED <<calc, is_connected, elsewhere, now, idempotency_cache, signal, admits>>

\* the threads whose comprehension is iterating the dict the engine holds
Iterating(c) ==
    {d \in Threads \ {c} : pc[d] = "v_iter" /\ frame[d].iter = "clean"}

\* fault: the guard admits the key without writing its record
validate_idempotency_insert_skipped(c) ==
    /\ pc[c] = "v_insert"
    /\ pc' = [pc EXCEPT ![c] = "v_sweep"]
    /\ UNCHANGED <<calc, is_connected, elsewhere, now, idempotency_cache, signal, result, frame, hist, admits>>

\* 206: self.idempotency_cache[key] = utcnow().  A comprehension of another
\* thread that is iterating this dict fails at its next step when the dict
\* grew; when the key was there (a racing insert) it may read either stamp.
validate_idempotency_insert(c) ==
    /\ pc[c] = "v_insert"
    /\ idempotency_cache' = [idempotency_cache EXCEPT ![Key(c)] = Some(now)]
    /\ admits' = [admits EXCEPT ![Key(c)] = Some([at |-> now, sent |-> FALSE])]
    /\ pc' = [pc EXCEPT ![c] = "v_sweep"]
    /\ hist' = [hist EXCEPT ![c].recorded = TRUE]
    /\ \E seen \in SUBSET Iterating(c) :
         frame' = [d \in Threads |->
                     IF d \notin Iterating(c) THEN frame[d]
                     ELSE IF ~Has(idempotency_cache, Key(c))
                     THEN [frame[d] EXCEPT !.iter = "broken"]
                     ELSE IF d \in seen
                     THEN [frame[d] EXCEPT !.items[Key(c)] = Some(now)]
                     ELSE frame[d]]
    /\ UNCHANGED <<calc, is_connected, elsewhere, now, signal, result>>

\* 209-211: cutoff = utcnow() - ttl; the comprehension starts to iterate
validate_idempotency_sweep_begin(c) ==
    /\ pc[c] = "v_sweep"
    /\ frame' = [frame EXCEPT ![c].cutoff = now - idempotency_ttl,
                              ![c].items = idempotency_cache,
                              ![c].iter = "clean"]
    /\ pc' = [pc EXCEPT ![c] = "v_iter"]
    /\ UNCHANGED <<calc, is_connected, elsewhere, now, idempotency_cache, signal, result, hist, admits>>

\* fault: a sweep that keeps a record half the retention window only
sweep_half_window(items, cutoff) ==
    [k \in Keys |-> IF Has(items, k) /\ Val(items[k]) > cutoff + TickSeconds
                    THEN items[k] ELSE None]

\* the entries the comprehension keeps: {k: v for k, v in items if v > cutoff}
sweep(items, cutoff) ==
    [k \in Keys |-> IF Has(items, k) /\ Val(items[k]) > cutoff
                    THEN items[k] ELSE None]

\* 211-212: the comprehension ends: with the new dict, or with RuntimeError
\* (dictionary changed size during iteration), which execute_signal catches
validate_idempotency_sweep_end(c) ==
    /\ pc[c] = "v_iter"
    /\ IF frame[c].iter = "broken"
       THEN Raise(c, "dictionary changed size during iteration", hist[c])
       ELSE /\ frame' = [frame EXCEPT ![c].items = sweep(frame[c].items,
                                                         frame[c].cutoff),
                                      ![c].cutoff = 0, ![c].iter = ""]
            /\ pc' = [pc EXCEPT ![c] = "v_assign"]
            /\ UNCHANGED <<result, hist>>
    /\ UNCHANGED <<calc, is_connected, elsewhere, now, idempotency_cache, signal, admits>>

\* 210, 215: self.idempotency_cache = <the new dict>; return True.  A
\* comprehension still iterating the old dict is no longer disturbed.
validate_idempotency_assign(c) ==
    /\ pc[c] = "v_assign"
    /\ idempotency_cache' = frame[c].items
    /\ frame' = [d \in Threads |->
                   IF d = c THEN EmptyFrame
                   ELSE IF d \in Iterating(c)
                   THEN [frame[d] EXCEPT !.iter = "detached"]
                   ELSE frame[d]]
    /\ pc' = [pc EXCEPT ![c] = "subscribe"]
    /\ hist' = [hist EXCEPT ![c].admitted = TRUE]
    /\ UNCHANGED <<calc, is_connected, elsewhere, now, signal, result, admits>>

(***************************************************************************)
(* The broker-facing collaborators.                                        *)
(***************************************************************************)
\* MT5Client.get_symbol_info (__init__.py 126-164): the SymbolInfo, cached
\* or fetched, or None when the symbol is not found or the lookup raised
get_symbol_info(found) == IF found THEN Some(EURUSD) ELSE None

\* a heartbeat that tests the broker and not the flag
heartbeat_unguarded(connected, alive) == alive

\* MT5Client.heartbeat (__init__.py 94-114): False at once when the client
\* is not connected, else whether mt5.account_info() answered (alive); the
\* value is also what is_connected is after the call
heartbeat(connected, alive) == connected /\ alive

\* MT5Client.get_account_info (__init__.py 180-208): None when the
\* heartbeat fails
get_account_info(up) == IF up THEN Some(AccountInfo) ELSE None

(***************************************************************************)
(* execute_signal (trading.py 217-316) after the idempotency guard, one    *)
(* action per stage.                                                       *)
(***************************************************************************)
\* 227-232: subscribe_symbol
execute_signal_subscribe(c) ==
    /\ pc[c] = "subscribe"
    /\ \E ok \in BOOLEAN :
         LET h == [Step(c, "subscribe") EXCEPT !.broker_calls = @ + 1]
         IN  IF ok
             THEN /\ pc' = [pc EXCEPT ![c] = "symbol_info"]
                  /\ hist' = [hist EXCEPT ![c] = h]
                  /\ UNCHANGED <<result, frame>>
             ELSE Return(c, Some(Failed(MsgSymbol(Val(signal[c]).symbol))), h)
    /\ UNCHANGED <<calc, is_connected, elsewhere, now, idempotency_cache, signal, admits>>

\* 234-240: get_symbol_info
execute_signal_symbol_info(c) ==
    /\ pc[c] = "symbol_info"
    /\ \E found \in BOOLEAN :
         LET h == [Step(c, "symbol_info") EXCEPT !.broker_calls = @ + 1]
         IN  IF IsNone(get_symbol_info(found))
             THEN Return(c, Some(Failed(MsgSymbolInfo(Val(signal[c]).symbol))), h)
             ELSE /\ pc' = [pc EXCEPT ![c] = "tick"]
                  /\ hist' = [hist EXCEPT ![c] = h]
                  /\ UNCHANGED <<result, frame>>
    /\ UNCHANGED <<calc, is_connected, elsewhere, now, idempotency_cache, signal, admits>>

\* 250: the ask for BUY, the bid for SELL
current_price_of(side, tick) == IF side = "BUY" THEN tick.ask ELSE tick.bid

\* 242-250: mt5.symbol_info_tick returns the tick or None, or raises
execute_signal_tick(c) ==
    /\ pc[c] = "tick"
    /\ \E outcome \in {"tick", "none", "raise"} :
         LET h == [Step(c, "tick") EXCEPT !.broker_calls = @ + 1]
         IN  CASE outcome = "tick" ->
                    /\ frame' = [frame EXCEPT ![c].current_price =
                                    Some(current_price_of(Val(signal[c]).side, Tick))]
                    /\ pc' = [pc EXCEPT ![c] = "lot_size"]
                    /\ hist' = [hist EXCEPT ![c] = h]
                    /\ UNCHANGED result
               [] outcome = "none" ->
                    Return(c, Some(Failed(MsgPrice(Val(signal[c]).symbol))), h)
               [] outcome = "raise" ->
                    Raise(c, "timeout", h)
    /\ UNCHANGED <<calc, is_connected, elsewhere, now, idempotency_cache, signal, admits>>

\* fault: a missing stop falls back to 20 pips instead of 0
sl_points_of_default(sl, current_price, symbol_info) ==
    IF Truthy(sl.pips) THEN Val(sl.pips)
    ELSE IF Truthy(sl.price)
    THEN RDiv(RAbs(RSub(current_price, Val(sl.price))), symbol_info.point)
    ELSE RInt(20)

\* 252-257: the stop distance in points
sl_points_of(sl, current_price, symbol_info) ==
    IF Truthy(sl.pips) THEN Val(sl.pips)
    ELSE IF Truthy(sl.price)
    THEN RDiv(RAbs(RSub(current_price, Val(sl.price))), symbol_info.point)
    ELSE RZero

\* 261: `if not lot_size`: None and 0.0 are falsy
lot_size_unusable(lot_size) == ~Truthy(lot_size)

\* 252-265: the stop distance and calculate_lot_size, with its own lookups
\* of the symbol and of the account
execute_signal_lot_size(c) ==
    /\ pc[c] = "lot_size"
    /\ \E found \in BOOLEAN, alive \in BOOLEAN :
         LET sl_points == sl_points_of(Val(signal[c]).sl,
                                       Val(frame[c].current_price), EURUSD)
             up == heartbeat(is_connected, alive)
             lot_size == calculate_lot_size(get_symbol_info(found),
                             get_account_info(up), Val(signal[c]).risk,
                             sl_points)
             h == [Step(c, "lot_size") EXCEPT !.broker_calls = @ + 2]
         IN  /\ is_connected' = up
             /\ IF lot_size_unusable(lot_size)
                THEN Return(c, Some(Failed(MsgLotSize)), h)
                ELSE /\ frame' = [frame EXCEPT ![c].lot_size = lot_size]
                     /\ pc' = [pc EXCEPT ![c] = "sl_tp"]
                     /\ hist' = [hist EXCEPT ![c] = h]
                     /\ UNCHANGED result
    /\ UNCHANGED <<calc, elsewhere, now, idempotency_cache, signal, admits>>

\* 267-270: calculate_sl_tp_prices, with its own lookup of the symbol
execute_signal_sl_tp(c) ==
    /\ pc[c] = "sl_tp"
    /\ \E found \in BOOLEAN :
         LET prices == calculate_sl_tp_prices(get_symbol_info(found),
                           Val(signal[c]).side, Val(frame[c].current_price),
                           Val(signal[c]).sl, Val(signal[c]).tp)
         IN  /\ frame' = [frame EXCEPT ![c].sl_price = prices[1],
                                       ![c].tp_price = prices[2]]
             /\ hist' = [hist EXCEPT ![c] =
                            [Step(c, "sl_tp") EXCEPT !.broker_calls = @ + 1]]
    /\ pc' = [pc EXCEPT ![c] = "order_send"]
    /\ UNCHANGED <<calc, is_connected, elsewhere, now, idempotency_cache, signal, result, admits>>

\* `x or 0.0`
or_zero(o) == IF Truthy(o) THEN Val(o) ELSE RZero

\* 272-288: the request
order_request(sig, fr) ==
    [symbol |-> sig.symbol, volume |-> Val(fr.lot_size), type |-> sig.side,
     price |-> Val(fr.current_price), sl |-> or_zero(fr.sl_price),
     tp |-> or_zero(fr.tp_price), magic |-> sig.magic_number,
     comment |-> sig.comment]

\* fault: the success result without the lot size
order_result_no_lot_size(reply, fr, ticket) ==
    IF reply.retcode # "TRADE_RETCODE_DONE"
    THEN Some(Failed(MsgOrderFailed(reply.comment)))
    ELSE Some(OrderResult(TRUE, Some(ticket), Some(ticket), fr.current_price,
                          fr.sl_price, fr.tp_price, None, None))

\* 293-309: the OrderResult built from the result object order_send
\* returned.  ticket: the order/position id the broker assigned.
order_result(reply, fr, ticket) ==
    IF reply.retcode # "TRADE_RETCODE_DONE"
    THEN Some(Failed(MsgOrderFailed(reply.comment)))
    ELSE Some(OrderResult(TRUE, Some(ticket), Some(ticket), fr.current_price,
                          fr.sl_price, fr.tp_price, fr.lot_size, None))

\* 272-309: build the request, mt5.order_send, map what it did
execute_signal_order_send(c) ==
    /\ pc[c] = "order_send"
    /\ \E reply \in OrderSendOutcomes :
         LET h == [Step(c, "order_send") EXCEPT
                      !.broker_calls = @ + 1, !.sends = @ + 1,
                      !.request = Some(order_request(Val(signal[c]), frame[c])),
                      !.reply = Some(reply)]
         IN  CASE reply.kind = "raise" -> Raise(c, reply.comment, h)
               [] reply.kind = "none" ->
                    Raise(c, "'NoneType' object has no attribute 'retcode'", h)
               [] OTHER -> Return(c, order_result(reply, frame[c], c), h)
    /\ admits' = IF Key(c) # "" /\ ~IsNone(admits[Key(c)])
                 THEN [admits EXCEPT ![Key(c)] =
                          Some([Val(@) EXCEPT !.sent = TRUE])]
                 ELSE admits
    /\ UNCHANGED <<calc, is_connected, elsewhere, now, idempotency_cache, signal>>

\* time passes
AdvanceClock(maxticks) ==
    /\ now < maxticks * TickSeconds
    /\ now' = now + TickSeconds
    /\ UNCHANGED <<calc, is_connected, elsewhere, idempotency_cache, pc, signal, frame, result, hist, admits>>

\* MT5Client.initialize (__init__.py 52-83), at start-up (app.py 69), from
\* reconnect (116-124) or from the connection test of the UI: the flag is
\* set when terminal, login and account all answered, else left as it is
initialize(limit) ==
    /\ Cardinality(Busy) < limit
    /\ \E ok \in BOOLEAN :
         is_connected' = IF ok THEN TRUE ELSE is_connected
    /\ UNCHANGED <<calc, elsewhere, now, idempotency_cache, pc, signal, frame,
                   result, hist, admits>>

\* MT5Client.shutdown (__init__.py 85-92), as the connection test of the UI
\* calls it (ui/routes.py 204-207)
shutdown(limit) ==
    /\ Cardinality(Busy) < limit
    /\ is_connected' = FALSE
    /\ UNCHANGED <<calc, elsewhere, now, idempotency_cache, pc, signal, frame,
                   result, hist, admits>>

Run(c) ==
    \/ validate_idempotency_check(c)
    \/ validate_idempotency_insert(c)
    \/ validate_idempotency_sweep_begin(c)
    \/ validate_idempotency_sweep_end(c)
    \/ validate_idempotency_assign(c)
    \/ execute_signal_subscribe(c)
    \/ execute_signal_symbol_info(c)
    \/ execute_signal_tick(c)
    \/ execute_signal_lot_size(c)
    \/ execute_signal_sl_tp(c)
    \/ execute_signal_order_send(c)
    \/ respond(c)

\* the signals of the concurrent callers differ in their key
ConcurrentSignals ==
    {s \in Signals : s.idempotency_key # "" /\ s.side = "BUY" /\ Truthy(s.sl.pips)}

\* request threads run execute_signal concurrently
Next ==
    \/ \E c \in Threads, s \in ConcurrentSignals :
         execute_signal_enter(c, s, NumThreads)
    \/ \E c \in Threads : Run(c)
    \/ AdvanceClock(ConcurrentTicks)
    \/ initialize(NumThreads + 1)
    \/ shutdown(NumThreads + 1)

Spec == Init /\ [][Next]_vars

\* one caller: each call returns before the next is made
NextSeq ==
    \/ \E c \in Threads, s \in Signals : execute_signal_enter(c, s, 1)
    \/ \E c \in Threads : Run(c)
    \/ AdvanceClock(MaxTicks)
    \/ initialize(1)
    \/ shutdown(1)

SpecSeq == Init /\ [][NextSeq]_vars


(***************************************************************************)
(* The calculations called directly, as a unit test or another component   *)
(* calls them: a call draws its arguments and leaves function, arguments   *)
(* and value in calc.  The calculations keep no state, so one call per     *)
(* behaviour shows all a sequence of calls can.                            *)
(***************************************************************************)
\* the default limits, and limits that are not multiples of the step
LotConfigs ==
    { DefaultConfig,
      [MIN_LOT_SIZE |-> Rat(1, 4), MAX_LOT_SIZE |-> Rat(3, 4),
       LOT_STEP |-> Rat(1, 2)] }

RiskConfigs ==
    { [percent |-> RInt(p), fixed_amount |-> f, max_risk_per_trade |-> RInt(2)] :
        p \in {1, 5},
        f \in {None, Some(RZero), Some(Rat(5, 2)), Some(RInt(500))} }

StopPoints == {RZero, RInt(20), RInt(100)}

Lookups(x) == {None, Some(x)}

\* trading.py 87-135
calculate_lot_size_call ==
    /\ calc = NoCall
    /\ \E config \in LotConfigs, symbol_info \in Lookups(EURUSD),
          account_info \in Lookups(AccountInfo), risk_config \in RiskConfigs,
          sl_points \in StopPoints :
         calc' = [fn |-> "calculate_lot_size",
                  args |-> [config |-> config, symbol_info |-> symbol_info,
                            account_info |-> account_info,
                            risk_config |-> risk_config,
                            sl_points |-> sl_points],
                  value |-> calculate_lot_size_config(config, symbol_info,
                                account_info, risk_config, sl_points)]
    /\ UNCHANGED <<is_connected, elsewhere, now, idempotency_cache, pc, signal, frame, result, hist,
                   admits>>

EntryPrice == Rat(110000, 100000)

StopLossConfigs ==
    { [pips |-> p, price |-> q] :
        p \in {None, Some(RInt(3)), Some(RInt(5)), Some(RInt(20))},
        q \in {None, Some(Rat(109998, 100000)), Some(Rat(109900, 100000)),
               Some(Rat(110002, 100000)), Some(EntryPrice)} }

TakeProfitConfigs ==
    { [pips |-> p, price |-> q, risk_reward_ratio |-> r] :
        p \in {None, Some(RInt(3)), Some(RInt(40))},
        q \in {None, Some(Rat(110001, 100000)), Some(Rat(110500, 100000))},
        r \in {None, Some(RInt(2))} }

\* trading.py 137-194
calculate_sl_tp_prices_call ==
    /\ calc = NoCall
    /\ \E symbol_info \in Lookups(EURUSD), side \in {"BUY", "SELL"},
          sl_config \in StopLossConfigs, tp_config \in TakeProfitConfigs :
         calc' = [fn |-> "calculate_sl_tp_prices",
                  args |-> [symbol_info |-> symbol_info, side |-> side,
                            entry_price |-> EntryPrice,
                            sl_config |-> sl_config, tp_config |-> tp_config],
                  value |-> calculate_sl_tp_prices(symbol_info, side,
                                EntryPrice, sl_config, tp_config)]
    /\ UNCHANGED <<is_connected, elsewhere, now, idempotency_cache, pc, signal, frame, result, hist,
                   admits>>

MarginInfos ==
    { [EURUSD EXCEPT !.margin_mode = m, !.margin_rate = r,
                     !.margin_required = q] :
        m \in {"FOREX", "FUTURES", "CFD"},
        r \in {Rat(1, 100), Rat(1, 20)},
        q \in {RZero, RInt(1000)} }

AccountSummaries ==
    { [AccountInfo EXCEPT !.free_margin = RInt(f), !.leverage = RInt(l)] :
        f \in {4000, 5000}, l \in {30, 100} }

Volumes == {Rat(1, 100), RInt(1), RInt(4), RInt(5)}

\* account.py 126-142
check_margin_sufficient_call ==
    /\ calc = NoCall
    /\ \E margin_info \in {None} \cup {Some(x) : x \in MarginInfos},
          account_summary \in {None} \cup {Some(x) : x \in AccountSummaries},
          volume \in Volumes :
         calc' = [fn |-> "check_margin_sufficient",
                  args |-> [margin_info |-> margin_info,
                            account_summary |-> account_summary,
                            volume |-> volume],
                  value |-> check_margin_sufficient(margin_info,
                                account_summary, volume)]
    /\ UNCHANGED <<is_connected, elsewhere, now, idempotency_cache, pc, signal, frame, result, hist,
                   admits>>

NextCalc ==
    \/ calculate_lot_size_call
    \/ calculate_sl_tp_prices_call
    \/ check_margin_sufficient_call

SpecCalc == Init /\ [][NextCalc]_vars

(***************************************************************************)
(* The test double: MockMT5Client and MockTradingEngine (app/mt5/mock.py). *)
(* Its calls are made one after another, each a single step that leaves    *)
(* its name, arguments and value in calc.                                  *)
(***************************************************************************)
\* orders the mock executes
MaxMockOrders == 2

\* MockMT5Client._init_default_symbols (61-81): every default symbol has
\* these figures but USDJPY, which no signal here names
MockSymbols == {"EURUSD", "GBPUSD", "AUDUSD", "USDCAD"}
MockSymbolInfo(symbol) ==
    [name |-> symbol, point |-> Rat(1, 100000), tick_value |-> RInt(1),
     contract_size |-> RInt(100000)]

\* MockMT5Client.get_symbol_info (101-103): symbols_cache.get(symbol)
mock_get_symbol_info(symbol) ==
    IF symbol \in MockSymbols THEN Some(MockSymbolInfo(symbol)) ELSE None

\* MockMT5Client.get_account_info (121-137), the field the mock engine reads
mock_get_account_info == Some([balance |-> RInt(10000)])

\* MockTradingEngine.calculate_lot_size (161-185)
mock_calculate_lot_size(symbol, risk_config, sl_points) ==
    LET symbol_info == mock_get_symbol_info(symbol)
        account_info == mock_get_account_info
    IN  IF IsNone(symbol_info) THEN None
        ELSE IF IsNone(account_info) THEN None
        ELSE LET risk_amount == RMul(Val(account_info).balance,
                                     RDiv(risk_config.percent, RInt(100)))
                 point_value == RMul(Val(symbol_info).tick_value,
                                     Val(symbol_info).contract_size)
                 loss_per_lot == RMul(RMul(sl_points, Val(symbol_info).point),
                                      point_value)
             IN  IF RLe(loss_per_lot, RZero) THEN None
                 ELSE LET raw == RDiv(risk_amount, loss_per_lot)
                          lo == RMaxOf(raw, Rat(1, 100))
                          hi == RMinOf(lo, RInt(100))
                      IN  Some(RMul(RInt(PyRound(RDiv(hi, Rat(1, 100)))),
                                    Rat(1, 100)))

\* MockTradingEngine.calculate_sl_tp_prices (187-211): pips only
mock_calculate_sl_tp_prices(symbol, side, entry_price, sl_config, tp_config) ==
    LET symbol_info == mock_get_symbol_info(symbol)
    IN  IF IsNone(symbol_info) THEN <<None, None>>
        ELSE LET point == Val(symbol_info).point
                 sl_price ==
                     IF Truthy(sl_config.pips)
                     THEN LET pip_value == RMul(Val(sl_config.pips), point)
                          IN  Some(IF side = "BUY"
                                   THEN RSub(entry_price, pip_value)
                                   ELSE RAdd(entry_price, pip_value))
                     ELSE None
                 tp_price ==
                     IF Truthy(tp_config.pips)
                     THEN LET pip_value == RMul(Val(tp_config.pips), point)
                          IN  Some(IF side = "BUY"
                                   THEN RAdd(entry_price, pip_value)
                                   ELSE RSub(entry_price, pip_value))
                     ELSE None
             IN  <<sl_price, tp_price>>

\* a guard that admits every key
mock_validate_idempotency_open(cache, idempotency_key) == TRUE

\* MockTradingEngine.validate_idempotency (213-222): its value ...
mock_validate_idempotency(cache, idempotency_key) ==
    idempotency_key = "" \/ ~Has(cache, idempotency_key)

\* ... and the cache it leaves: an admitted non-empty key is recorded, and
\* nothing is ever removed
mock_idempotency_cache_after(cache, idempotency_key, t) ==
    IF idempotency_key # "" /\ ~Has(cache, idempotency_key)
    THEN [cache EXCEPT ![idempotency_key] = Some(t)]
    ELSE cache

\* an order number that is handed out again
next_order_counter_stuck(order_counter) == order_counter

\* 263: self.mock_client.order_counter += 1
next_order_counter(order_counter) == order_counter + 1

\* MockPosition (31-45), the fields the calls read or write
MockPosition(ticket, symbol, type, volume, price_open, sl, tp) ==
    [ticket |-> ticket, symbol |-> symbol, type |-> type, volume |-> volume,
     price_open |-> price_open, sl |-> sl, tp |-> tp]

\* the signals the mock is given: known and unknown symbol, without a key
\* and with one
MockShapes == { sh \in SignalShapes : Truthy(sh.sl.pips) }
MockSignals ==
    { [idempotency_key |-> k, symbol |-> sy, side |-> sh.side,
       risk |-> sh.risk, sl |-> sh.sl, tp |-> sh.tp, magic_number |-> 0,
       comment |-> "sig"] :
        k \in {"", "k1"}, sy \in {"EURUSD", "XAUUSD"}, sh \in MockShapes }

\* 243-244: base_price + random.uniform(-0.01, 0.01), the two ends
MockPrices(symbol) ==
    LET base_price == IF symbol = "EURUSD" THEN Rat(11, 10) ELSE Rat(12, 10)
    IN  {RSub(base_price, Rat(1, 100)), RAdd(base_price, Rat(1, 100))}

\* the value of MockTradingEngine.execute_signal (224-293) for a signal, a
\* drawn price and the engine's state, its position included
mock_order_result(cache, order_counter, s, current_price) ==
    LET symbol_info == mock_get_symbol_info(s.symbol)
        sl_points == IF Truthy(s.sl.pips) THEN Val(s.sl.pips) ELSE RInt(20)
        lot_size == mock_calculate_lot_size(s.symbol, s.risk, sl_points)
        prices == mock_calculate_sl_tp_prices(s.symbol, s.side, current_price,
                                              s.sl, s.tp)
        order_id == order_counter
    IN  IF ~mock_validate_idempotency(cache, s.idempotency_key)
        THEN Failed(MsgDuplicate)
        ELSE IF IsNone(symbol_info) THEN Failed(MsgSymbol(s.symbol))
        ELSE IF ~Truthy(lot_size) THEN Failed(MsgLotSize)
        ELSE OrderResult(TRUE, Some(order_id), Some(order_id),
                         Some(current_price), prices[1], prices[2], lot_size,
                         None)

\* 265-281: the position a successful call appends
mock_position(r, s) ==
    MockPosition(Val(r.order_id), s.symbol,
                 IF s.side = "BUY" THEN "buy" ELSE "sell", Val(r.lot_size),
                 Val(r.executed_price), or_zero(r.sl_price),
                 or_zero(r.tp_price))

mock_execute_signal ==
    /\ \E s \in MockSignals :
         \E current_price \in MockPrices(s.symbol) :
           \E r \in {mock_order_result(mock_idempotency_cache,
                                       mock_client.order_counter, s,
                                       current_price)} :
               /\ r.success =>
                    mock_client.order_counter < FIRST_ORDER + MaxMockOrders
               /\ mock_idempotency_cache' =
                    mock_idempotency_cache_after(mock_idempotency_cache,
                                                 s.idempotency_key, now)
               /\ mock_client' =
                    IF r.success
                    THEN [positions |->
                              Append(mock_client.positions, mock_position(r, s)),
                          order_counter |->
                              next_order_counter(mock_client.order_counter)]
                    ELSE mock_client
               /\ calc' = [fn |-> "mock.execute_signal", args |-> <<s>>,
                           value |-> Some(r)]
    /\ UNCHANGED <<is_connected, nonce_cache, now, idempotency_cache, pc,
                   signal, frame, result, hist, admits>>

\* the tickets, stops, targets and volumes the position calls are given:
\* an order number never handed out among them, prices and volumes positive
\* (schemas.py 74-83)
MockTickets == FIRST_ORDER .. (FIRST_ORDER + MaxMockOrders)
StopPrices == {None, Some(Rat(1095, 1000))}
TargetPrices == {None, Some(Rat(1105, 1000))}
CloseVolumes == {None, Some(RInt(4)), Some(RInt(5))}

\* index of the first position with the ticket, 0 when there is none
IndexOfTicket(positions, ticket) ==
    IF \E i \in 1..Len(positions) : positions[i].ticket = ticket
    THEN CHOOSE i \in 1..Len(positions) :
             /\ positions[i].ticket = ticket
             /\ \A j \in 1..(i - 1) : positions[j].ticket # ticket
    ELSE 0

\* MockTradingEngine.get_positions (295-319)
mock_get_positions(positions, symbol) ==
    IF ~IsNone(symbol) /\ Val(symbol) # ""
    THEN SelectSeq(positions, LAMBDA p : p.symbol = Val(symbol))
    ELSE positions

mock_get_positions_call ==
    /\ calc = NoCall
    /\ \E symbol \in {None, Some("EURUSD"), Some("USDJPY")} :
         calc' = [fn |-> "mock.get_positions", args |-> <<symbol>>,
                  value |-> Some(mock_get_positions(mock_client.positions,
                                                    symbol))]
    /\ UNCHANGED <<is_connected, elsewhere, now, idempotency_cache, pc,
                   signal, frame, result, hist, admits>>

\* 326-329: `if sl is not None: pos.sl = sl`, the same for tp
mock_modified(pos, sl, tp) ==
    [pos EXCEPT !.sl = IF IsNone(sl) THEN @ ELSE Val(sl),
                !.tp = IF IsNone(tp) THEN @ ELSE Val(tp)]

\* MockTradingEngine.modify_position (321-331)
mock_modify_position ==
    /\ \E ticket \in MockTickets, sl \in StopPrices, tp \in TargetPrices :
         LET i == IndexOfTicket(mock_client.positions, ticket)
         IN  /\ mock_client' =
                  IF i = 0 THEN mock_client
                  ELSE [mock_client EXCEPT
                           !.positions[i] = mock_modified(@, sl, tp)]
             /\ calc' = [fn |-> "mock.modify_position",
                         args |-> <<ticket, sl, tp>>, value |-> Some(i # 0)]
    /\ UNCHANGED <<is_connected, mock_idempotency_cache, nonce_cache, now,
                   idempotency_cache, pc, signal, frame, result, hist, admits>>

\* the sequence without its i-th element
Without(seq, i) ==
    [j \in 1..(Len(seq) - 1) |-> IF j < i THEN seq[j] ELSE seq[j + 1]]

\* a close that takes "not more than the position" for a part of it
mock_closed_reduce_equal(positions, i, volume) ==
    IF Truthy(volume) /\ RLe(Val(volume), positions[i].volume)
    THEN [positions EXCEPT ![i].volume = RSub(@, Val(volume))]
    ELSE Without(positions, i)

\* 337-340: `if volume and volume < pos.volume: pos.volume -= volume`,
\* else `del positions[i]`
mock_closed(positions, i, volume) ==
    IF Truthy(volume) /\ RLt(Val(volume), positions[i].volume)
    THEN [positions EXCEPT ![i].volume = RSub(@, Val(volume))]
    ELSE Without(positions, i)

\* MockTradingEngine.close_position (333-342)
mock_close_position ==
    /\ \E ticket \in MockTickets, volume \in CloseVolumes :
         LET i == IndexOfTicket(mock_client.positions, ticket)
         IN  /\ mock_client' =
                  IF i = 0 THEN mock_client
                  ELSE [mock_client EXCEPT
                           !.positions = mock_closed(@, i, volume)]
             /\ calc' = [fn |-> "mock.close_position",
                         args |-> <<ticket, volume>>, value |-> Some(i # 0)]
    /\ UNCHANGED <<is_connected, mock_idempotency_cache, nonce_cache, now,
                   idempotency_cache, pc, signal, frame, result, hist, admits>>

(***************************************************************************)
(* The position calls of the real engine (trading.py 318-407), called      *)
(* directly: the broker's answers are drawn, and the call leaves in calc   *)
(* also what the broker held and what was sent to it.  They keep no state  *)
(* in the engine, so one call per behaviour shows all a sequence can.      *)
(***************************************************************************)
\* mt5.POSITION_TYPE_BUY, mt5.POSITION_TYPE_SELL
POSITION_TYPE_BUY == 0
POSITION_TYPE_SELL == 1

\* what mt5.positions_get(ticket=...) may answer: nothing, or the position
BrokerPosition(ticket) ==
    [ticket |-> ticket, symbol |-> "EURUSD", type |-> POSITION_TYPE_BUY,
     volume |-> RInt(5), sl |-> Rat(109, 100), tp |-> Rat(112, 100),
     magic |-> 0]
positions_get(ticket) == {None, Some(BrokerPosition(ticket))}

\* what mt5.order_send may do with a request: done, refused, no result
\* (result.retcode then raises)
PassReplies == {"DONE", "REJECTED", "none"}

\* a request that sends 0.0 for what was left out
modify_request_zeroed(pos, ticket, sl, tp) ==
    [action |-> "SLTP", symbol |-> pos.symbol, position |-> ticket,
     sl |-> or_zero(sl), tp |-> or_zero(tp)]

\* 360-366: `sl or pos.sl`, `tp or pos.tp`
modify_request(pos, ticket, sl, tp) ==
    [action |-> "SLTP", symbol |-> pos.symbol, position |-> ticket,
     sl |-> IF Truthy(sl) THEN Val(sl) ELSE pos.sl,
     tp |-> IF Truthy(tp) THEN Val(tp) ELSE pos.tp]

\* 383-400: `volume or pos.volume`, the opposite order type
close_request(pos, ticket, volume) ==
    [action |-> "DEAL", symbol |-> pos.symbol,
     volume |-> IF Truthy(volume) THEN Val(volume) ELSE pos.volume,
     type |-> IF pos.type = POSITION_TYPE_BUY THEN "SELL" ELSE "BUY",
     position |-> ticket, magic |-> pos.magic]

\* TradingEngine.modify_position (349-373)
modify_position_call ==
    /\ calc = NoCall
    /\ \E sl \in StopPrices, tp \in TargetPrices,
          position \in positions_get(FIRST_ORDER), reply \in PassReplies :
         /\ IsNone(position) => reply = "none"
         /\ calc' = [fn |-> "modify_position",
                     args |-> <<FIRST_ORDER, sl, tp>>,
                     value |-> Some(~IsNone(position) /\ reply = "DONE"),
                     position |-> position,
                     sent |-> IF IsNone(position) THEN None
                              ELSE Some(modify_request(Val(position),
                                                       FIRST_ORDER, sl, tp))]
    /\ UNCHANGED <<is_connected, elsewhere, now, idempotency_cache, pc,
                   signal, frame, result, hist, admits>>

\* TradingEngine.close_position (375-407)
close_position_call ==
    /\ calc = NoCall
    /\ \E volume \in CloseVolumes, position \in positions_get(FIRST_ORDER),
          reply \in PassReplies :
         /\ IsNone(position) => reply = "none"
         /\ calc' = [fn |-> "close_position",
                     args |-> <<FIRST_ORDER, volume>>,
                     value |-> Some(~IsNone(position) /\ reply = "DONE"),
                     position |-> position,
                     sent |-> IF IsNone(position) THEN None
                              ELSE Some(close_request(Val(position),
                                                      FIRST_ORDER, volume))]
    /\ UNCHANGED <<is_connected, elsewhere, now, idempotency_cache, pc,
                   signal, frame, result, hist, admits>>

\* 326-339: the dict get_positions builds of a broker position
position_dict(pos) ==
    [ticket |-> pos.ticket, symbol |-> pos.symbol,
     type |-> IF pos.type = POSITION_TYPE_BUY THEN "buy" ELSE "sell",
     volume |-> pos.volume, sl |-> pos.sl, tp |-> pos.tp,
     magic |-> pos.magic]

\* TradingEngine.get_positions (318-347): mt5.positions_get answers None
\* (or raises), or the positions
get_positions_call ==
    /\ \E position \in positions_get(FIRST_ORDER) :
         calc' = [fn |-> "get_positions", args |-> <<None>>,
                  value |-> Some(IF IsNone(position) THEN <<>>
                                 ELSE <<position_dict(Val(position))>>),
                  position |-> position, sent |-> None]
    /\ UNCHANGED <<is_connected, elsewhere, now, idempotency_cache, pc,
                   signal, frame, result, hist, admits>>

\* the position calls of both engines, and the mock's execute_signal that
\* opens the positions
NextPositions ==
    \/ mock_execute_signal
    \/ mock_get_positions_call
    \/ mock_modify_position
    \/ mock_close_position
    \/ get_positions_call
    \/ modify_position_call
    \/ close_position_call

SpecPositions == Init /\ [][NextPositions]_vars

(***************************************************************************)
(* SecurityManager.validate_nonce (app/security/__init__.py 72-101) with   *)
(* no Redis client: the in-memory fallback.  A call is one step.           *)
(***************************************************************************)
NonceTickSeconds == nonce_ttl \div 2

\* a clean-up that keeps a record for half its lifetime
nonce_cleanup_half(cache, t) ==
    [n \in Nonces |->
        IF ~IsNone(cache[n]) /\ Val(cache[n]) > t - (nonce_ttl \div 2)
        THEN cache[n] ELSE None]

\* 96-99: cutoff = utcnow() - nonce_ttl; the records with v > cutoff stay
nonce_cleanup(cache, t) ==
    [n \in Nonces |->
        IF ~IsNone(cache[n]) /\ Val(cache[n]) > t - nonce_ttl
        THEN cache[n] ELSE None]

validate_nonce ==
    /\ \E nonce \in Nonces :
         IF Len(nonce) < NONCE_MIN_LENGTH
         THEN /\ calc' = [fn |-> "validate_nonce", args |-> <<nonce>>,
                          value |-> Some(FALSE)]
              /\ UNCHANGED nonce_cache
         ELSE IF ~IsNone(nonce_cache[nonce])
         THEN /\ calc' = [fn |-> "validate_nonce", args |-> <<nonce>>,
                          value |-> Some(FALSE)]
              /\ UNCHANGED nonce_cache
         ELSE /\ calc' = [fn |-> "validate_nonce", args |-> <<nonce>>,
                          value |-> Some(TRUE)]
              /\ nonce_cache' =
                   nonce_cleanup([nonce_cache EXCEPT ![nonce] = Some(now)],
                                 now)
    /\ UNCHANGED <<is_connected, mock_client, mock_idempotency_cache, now,
                   idempotency_cache, pc, signal, frame, result, hist, admits>>

\* time passes between two requests
AdvanceClockNonce ==
    /\ now < MaxTicks * NonceTickSeconds
    /\ now' = now + NonceTickSeconds
    /\ UNCHANGED <<calc, is_connected, elsewhere, idempotency_cache, pc,
                   signal, frame, result, hist, admits>>

NextNonce ==
    \/ validate_nonce
    \/ AdvanceClockNonce

SpecNonce == Init /\ [][NextNonce]_vars

(***************************************************************************)
(* The two idempotency guards side by side: one caller gives each key to   *)
(* TradingEngine.validate_idempotency (trading.py 196-215), run to its     *)
(* return, and to MockTradingEngine.validate_idempotency (mock.py 213-222).*)
(***************************************************************************)
\* 198-203, 215: the value of the real guard
validate_idempotency(cache, idempotency_key) ==
    idempotency_key = "" \/ ~Has(cache, idempotency_key)

\* 206-212: the cache the real guard leaves: the record written, then the
\* sweep; untouched when the key is empty or rejected
idempotency_cache_after(cache, idempotency_key, t) ==
    IF idempotency_key # "" /\ ~Has(cache, idempotency_key)
    THEN sweep([cache EXCEPT ![idempotency_key] = Some(t)],
               t - idempotency_ttl)
    ELSE cache

validate_idempotency_both ==
    /\ \E idempotency_key \in Keys :
         /\ calc' = [fn |-> "validate_idempotency",
                     args |-> <<idempotency_key>>,
                     value |-> Some(validate_idempotency(idempotency_cache,
                                                         idempotency_key)),
                     mock_value |->
                         Some(mock_validate_idempotency(mock_idempotency_cache,
                                                        idempotency_key))]
         /\ idempotency_cache' =
              idempotency_cache_after(idempotency_cache, idempotency_key, now)
         /\ mock_idempotency_cache' =
              mock_idempotency_cache_after(mock_idempotency_cache,
                                           idempotency_key, now)
         /\ admits' =
              IF idempotency_key # "" /\ ~Has(idempotency_cache, idempotency_key)
              THEN [admits EXCEPT ![idempotency_key] =
                       Some([at |-> now, sent |-> FALSE])]
              ELSE admits
    /\ UNCHANGED <<is_connected, mock_client, nonce_cache, now, pc, signal,
                   frame, result, hist>>

NextDouble ==
    \/ validate_idempotency_both
    \/ AdvanceClock(MaxTicks)

SpecDouble == Init /\ [][NextDouble]_vars

(***************************************************************************)
(* Properties.                                                             *)
(***************************************************************************)
IsDone(c) == pc[c] = "done"
IsDuplicate(c) == IsDone(c) /\ result[c] = Some(Failed(MsgDuplicate))
\* the call's key had no record, or an unexpired one, when the call tested it
PriorLive(c) ==
    ~IsNone(hist[c].prior) /\ Val(hist[c].prior).age < idempotency_ttl
PriorAbsent(c) == hist[c].checked /\ IsNone(hist[c].prior)

\* C1: of two calls with the same non-empty key that run concurrently (the
\* first tests the key when no record of it was ever written, the other
\* before such a record expired), exactly one is admitted and the other
\* returns the duplicate-key rejection, for every interleaving of the steps
\* of validate_idempotency.
C1_ExactlyOneAdmitted ==
    \A c1, c2 \in Threads :
        ( /\ c1 # c2
          /\ IsDone(c1) /\ IsDone(c2)
          /\ Key(c1) # "" /\ Key(c1) = Key(c2)
          /\ PriorAbsent(c1)
          /\ PriorAbsent(c2) \/ PriorLive(c2) )
        => \/ hist[c1].admitted /\ IsDuplicate(c2)
           \/ hist[c2].admitted /\ IsDuplicate(c1)

\* C2: a call whose non-empty key has a record younger than the retention
\* window when the call tests it is rejected as a duplicate, whatever became
\* of the call that wrote the record and whichever other keys were admitted
\* and swept since.
C2_LiveKeyRejected ==
    \A c \in Threads :
        (~IsNone(signal[c]) /\ Key(c) # "" /\ PriorLive(c))
        => IsDuplicate(c) /\ ~hist[c].admitted

\* a replay rejected after another key was admitted in between, the first
\* call not having reached a fill
C2_Witness ==
    \E c \in Threads, k2 \in Keys :
        /\ IsDuplicate(c) /\ PriorLive(c)
        /\ ~Val(hist[c].prior).sent
        /\ k2 # Key(c) /\ ~IsNone(admits[k2])
        /\ Val(admits[k2]).at > Val(admits[Key(c)]).at

\* C3: a call with a non-empty key that has made a broker-facing call has
\* written its idempotency record before; and a call that finds an unexpired
\* record of its key makes no broker-facing call and no order_send, also when
\* the call that wrote the record never reached order_send.
C3_RecordBeforeBroker ==
    \A c \in Threads :
        (~IsNone(signal[c]) /\ Key(c) # "")
        => /\ hist[c].broker_calls > 0 => hist[c].recorded /\ hist[c].admitted
           /\ PriorLive(c) => hist[c].broker_calls = 0 /\ hist[c].sends = 0

\* the replay of a key whose first call was admitted and ended before
\* order_send is rejected
C3_Witness ==
    \E c \in Threads :
        /\ IsDuplicate(c) /\ PriorLive(c)
        /\ ~Val(hist[c].prior).sent
        /\ hist[c].broker_calls = 0

\* C4: a call that tests a key whose record is older than the retention
\* window is admitted again.
C4_ExpiredKeyAdmitted ==
    \A c \in Threads :
        ( /\ ~IsNone(signal[c]) /\ Key(c) # ""
          /\ ~IsNone(hist[c].prior)
          /\ Val(hist[c].prior).age > idempotency_ttl )
        => ~IsDuplicate(c)

\* C5: a call with the empty key passes the guard and writes nothing: it is
\* never rejected as a duplicate, never reaches the insert or the sweep, and
\* the cache never holds the empty key.
C5_EmptyKeyAdmitted ==
    /\ ~Has(idempotency_cache, "")
    /\ \A c \in Threads :
        (~IsNone(signal[c]) /\ Key(c) = "")
        => /\ pc[c] \notin {"v_insert", "v_sweep", "v_iter", "v_assign"}
           /\ ~hist[c].recorded
           /\ hist[c].checked => hist[c].admitted
           /\ ~IsDuplicate(c)

\* a call with the empty key that went through to a fill
C5_Witness ==
    \E c \in Threads :
        /\ IsDone(c) /\ Key(c) = "" /\ hist[c].admitted
        /\ Val(result[c]).success

\* C6: a call invokes order_send only with a lot size whose estimated
\* required margin the account's free margin covers.
C6_NoSendWithoutMargin ==
    \A c \in Threads :
        hist[c].sends > 0
        => check_margin_sufficient(Some(EURUSD), Some(AccountInfo),
                                   Val(hist[c].request).volume)

\* the stop of the call's signal resolves to a distance of 0: no stop pips,
\* and no stop price or a stop price equal to the price the call trades at
ZeroStopDistance(c) ==
    LET sig == Val(signal[c])
    IN  /\ ~Truthy(sig.sl.pips)
        /\ \/ ~Truthy(sig.sl.price)
           \/ Val(sig.sl.price) = current_price_of(sig.side, Tick)

\* C7: a call whose stop distance resolves to 0 points ends at the sizing
\* stage with a failed result and never invokes order_send.
C7_ZeroStopFails ==
    \A c \in Threads :
        (~IsNone(signal[c]) /\ ZeroStopDistance(c))
        => /\ hist[c].sends = 0
           /\ pc[c] \notin {"sl_tp", "order_send"}
           /\ "lot_size" \in {hist[c].stages[i] : i \in DOMAIN hist[c].stages}
              => result[c] = Some(Failed(MsgLotSize))

\* a call with a stop price equal to the ask, failed at the sizing stage
C7_Witness ==
    \E c \in Threads :
        /\ IsDone(c) /\ ZeroStopDistance(c)
        /\ Truthy(Val(signal[c]).sl.price)
        /\ hist[c].stages[Len(hist[c].stages)] = "lot_size"
        /\ ~Val(result[c]).success

\* the stages in their order
StageOrder ==
    <<"key_check", "subscribe", "symbol_info", "tick", "lot_size", "sl_tp",
      "margin_check", "order_send">>

\* C8: the stages a call has run are an initial part of the order key check,
\* symbol resolution, price resolution, sizing, stop/target resolution,
\* margin check, submission; a call whose result is a failure ran no stage
\* after the one that failed; order_send is invoked at most once.
C8_ForwardOnly ==
    \A c \in Threads :
        /\ Len(hist[c].stages) <= Len(StageOrder)
        /\ \A i \in DOMAIN hist[c].stages : hist[c].stages[i] = StageOrder[i]
        /\ hist[c].sends <= 1
        /\ hist[c].sends > 0 => Len(hist[c].stages) = Len(StageOrder)

\* C9: a call that has returned handed back one OrderResult, a success
\* without an error message or a failure with one; a call that has not
\* returned handed back nothing; an exception raised during the call ends it
\* with the failed OrderResult that carries the exception's text.
C9_OneOrderResult ==
    \A c \in Threads :
        /\ IsDone(c) <=> ~IsNone(result[c])
        /\ IsDone(c) =>
              LET r == Val(result[c])
              IN  \/ r.success /\ IsNone(r.error_message)
                  \/ ~r.success /\ ~IsNone(r.error_message)
        /\ ~IsNone(hist[c].raised) =>
              /\ IsDone(c)
              /\ result[c] = Some(Failed("Interner Fehler: "
                                         \o Val(hist[c].raised)))

\* a call ended by an exception that order_send raised
C9_Witness ==
    \E c \in Threads :
        /\ IsDone(c) /\ ~IsNone(hist[c].raised)
        /\ hist[c].sends = 1
        /\ ~Val(result[c]).success

\* order_send returned a result object whose retcode is not DONE
BrokerDeclined(c) ==
    /\ IsDone(c) /\ ~IsNone(hist[c].reply)
    /\ Val(hist[c].reply).kind = "result"
    /\ Val(hist[c].reply).retcode # "TRADE_RETCODE_DONE"

\* C10 as stated: the error of a declined order is the broker's reason,
\* unmodified.
C10_ReasonUnmodified ==
    \A c \in Threads :
        BrokerDeclined(c)
        => /\ ~Val(result[c]).success
           /\ Val(result[c]).error_message = Some(Val(hist[c].reply).comment)

\* C10 as amended: the error of a declined order is the fixed text "Order
\* fehlgeschlagen: " followed by the broker's reason, unmodified.
C10_ReasonPrefixed ==
    \A c \in Threads :
        BrokerDeclined(c)
        => /\ ~Val(result[c]).success
           /\ Val(result[c]).error_message =
                 Some("Order fehlgeschlagen: " \o Val(hist[c].reply).comment)

\* a call the broker declined for lack of money
C10_Witness ==
    \E c \in Threads :
        /\ BrokerDeclined(c)
        /\ Val(hist[c].reply).retcode = "TRADE_RETCODE_NO_MONEY"

\* order_send did not answer the call: it raised, or it returned no result
Unresponsive(c) ==
    /\ IsDone(c) /\ hist[c].sends = 1
    /\ Val(hist[c].reply).kind \in {"raise", "none"}

\* C11: the result of a call whose order_send raised or returned nothing
\* differs from the result of every call that ended in another way (a broker
\* rejection, a failure of an earlier stage, a fill), so that the caller can
\* tell the outcome apart.
C11_BrokerUnavailableDistinct ==
    \A c1, c2 \in Threads :
        (Unresponsive(c1) /\ IsDone(c2) /\ ~Unresponsive(c2))
        => result[c1] # result[c2]

\* calculate_lot_size was called directly and returned a lot size
LotSizeReturned ==
    calc.fn = "calculate_lot_size" /\ ~IsNone(calc.value)

\* C12: whatever the configured limits and step, a lot size that
\* calculate_lot_size returns lies within [MIN_LOT_SIZE, MAX_LOT_SIZE].
C12_LotWithinLimits ==
    LotSizeReturned
    => /\ RLe(calc.args.config.MIN_LOT_SIZE, Val(calc.value))
       /\ RLe(Val(calc.value), calc.args.config.MAX_LOT_SIZE)

\* the lot of the call after the clamp and before the rounding, in steps
ClampedSteps ==
    LET a == calc.args
        raw == RDiv(risk_amount_of(a.risk_config, Val(a.account_info).balance),
                    loss_per_lot_of(Val(a.symbol_info), a.sl_points))
        clamped == RMinOf(RMaxOf(raw, a.config.MIN_LOT_SIZE),
                          a.config.MAX_LOT_SIZE)
    IN  RDiv(clamped, a.config.LOT_STEP)

\* q lies exactly halfway between two integers
Halfway(q) == q[2] = 2

\* C13: a clamped lot exactly halfway between two multiples of LOT_STEP is
\* rounded to the upper multiple.
C13_RoundHalfUp ==
    (LotSizeReturned /\ Halfway(ClampedSteps))
    => Val(calc.value) =
          RMul(RAdd(ClampedSteps, Rat(1, 2)), calc.args.config.LOT_STEP)

\* C14: the risk amount calculate_lot_size sizes with is the fixed amount
\* when the risk spec carries one (0 included), else balance * percent / 100,
\* capped at balance * max_risk_per_trade / 100.
C14_RiskAmount ==
    ( /\ calc.fn = "calculate_lot_size"
      /\ ~IsNone(calc.args.symbol_info) /\ ~IsNone(calc.args.account_info) )
    => LET rc == calc.args.risk_config
           balance == Val(calc.args.account_info).balance
           amount == IF ~IsNone(rc.fixed_amount) THEN Val(rc.fixed_amount)
                     ELSE RDiv(RMul(balance, rc.percent), RInt(100))
           cap == RDiv(RMul(balance, rc.max_risk_per_trade), RInt(100))
       IN  risk_amount_of(rc, balance) = RMinOf(amount, cap)

\* calculate_sl_tp_prices was called directly and found the symbol
PricesResolved ==
    calc.fn = "calculate_sl_tp_prices" /\ ~IsNone(calc.args.symbol_info)

\* the minimum distance of a stop or target from the entry
MinDistance == RMul(RInt(STOP_LEVEL_PIPS), EURUSD.point)

\* price p of a stop or a target after the minimum-distance rule: closer to
\* the entry than MinDistance, it lies at MinDistance on its side of the
\* entry (stop below and target above for BUY, mirrored for SELL)
PushedOut(side, kind, entry, p) ==
    IF RLt(RAbs(RSub(entry, p)), MinDistance)
    THEN IF (side = "BUY") = (kind = "stop") THEN RSub(entry, MinDistance)
                                             ELSE RAdd(entry, MinDistance)
    ELSE p

\* the price `pips` away from the entry: kind "stop" or "target"
PipPrice(side, kind, entry, pips) ==
    IF (side = "BUY") = (kind = "stop")
    THEN RSub(entry, RMul(pips, EURUSD.point))
    ELSE RAdd(entry, RMul(pips, EURUSD.point))

\* the target a stop at distance |entry - stop| and a risk:reward ratio give
RatioPrice(side, entry, stop, ratio) ==
    IF side = "BUY" THEN RAdd(entry, RMul(RAbs(RSub(entry, stop)), ratio))
                    ELSE RSub(entry, RMul(RAbs(RSub(entry, stop)), ratio))

\* the stop the call's stop spec names, before the minimum-distance rule
NamedStop ==
    LET a == calc.args
    IN  IF ~IsNone(a.sl_config.pips)
        THEN Some(PipPrice(a.side, "stop", a.entry_price, Val(a.sl_config.pips)))
        ELSE a.sl_config.price

\* the target resolved from source `first` if present, else from `second`,
\* else from the ratio and the named stop, else unset; then the
\* minimum-distance rule
TargetInOrder(first, second) ==
    LET a == calc.args
        tp == a.tp_config
        from(source) ==
            IF source = "price" THEN Val(tp.price)
            ELSE PipPrice(a.side, "target", a.entry_price, Val(tp.pips))
        present(source) ==
            IF source = "price" THEN ~IsNone(tp.price) ELSE ~IsNone(tp.pips)
        named ==
            IF present(first) THEN Some(from(first))
            ELSE IF present(second) THEN Some(from(second))
            ELSE IF ~IsNone(tp.risk_reward_ratio) /\ ~IsNone(NamedStop)
            THEN Some(RatioPrice(a.side, a.entry_price, Val(NamedStop),
                                 Val(tp.risk_reward_ratio)))
            ELSE None
    IN  IF IsNone(named) THEN None
        ELSE Some(PushedOut(a.side, "target", a.entry_price, Val(named)))

\* C16 as stated: the target is resolved from the explicit price, else from
\* the pips, else from the ratio and the stop, else it is unset.
C16_TargetPriceFirst ==
    PricesResolved => calc.value[2] = TargetInOrder("price", "pips")

\* C16 as amended: the target is resolved from the pips, else from the
\* explicit price, else from the ratio and the stop, else it is unset.
C16_TargetPipsFirst ==
    PricesResolved => calc.value[2] = TargetInOrder("pips", "price")

\* a target spec with both a price and pips, resolved from the pips
C16_Witness ==
    /\ PricesResolved
    /\ ~IsNone(calc.args.tp_config.price) /\ ~IsNone(calc.args.tp_config.pips)
    /\ calc.value[2] = Some(PipPrice(calc.args.side, "target",
                                     calc.args.entry_price, RInt(40)))

\* C17 as stated: pips give stop = entry - pips * point and target = entry +
\* pips * point for BUY, mirrored for SELL, with stop < entry < target for
\* BUY and target < entry < stop for SELL; the explicit stop price is used
\* only when the stop spec has no pips.
C17_PipPrices ==
    PricesResolved
    => LET a == calc.args
           sl == calc.value[1]
           tp == calc.value[2]
       IN  /\ ~IsNone(a.sl_config.pips) =>
                sl = Some(PipPrice(a.side, "stop", a.entry_price,
                                   Val(a.sl_config.pips)))
           /\ ~IsNone(a.tp_config.pips) =>
                tp = Some(PipPrice(a.side, "target", a.entry_price,
                                   Val(a.tp_config.pips)))
           /\ (~IsNone(a.sl_config.pips) /\ ~IsNone(a.tp_config.pips)) =>
                IF a.side = "BUY"
                THEN RLt(Val(sl), a.entry_price) /\ RLt(a.entry_price, Val(tp))
                ELSE RLt(Val(tp), a.entry_price) /\ RLt(a.entry_price, Val(sl))
           /\ (IsNone(a.sl_config.pips) /\ ~IsNone(a.sl_config.price)) =>
                sl = Some(PushedOut(a.side, "stop", a.entry_price,
                                    Val(a.sl_config.price)))

\* the larger of the pips and STOP_LEVEL_PIPS
AtLeastStopLevel(pips) == RMaxOf(pips, RInt(STOP_LEVEL_PIPS))

\* C17 as amended: pips give stop = entry - max(pips, STOP_LEVEL_PIPS) *
\* point and target = entry + max(pips, STOP_LEVEL_PIPS) * point for BUY,
\* mirrored for SELL, with stop < entry < target for BUY and target < entry <
\* stop for SELL; the explicit stop price is used only when the stop spec
\* has no pips.
C17_PipPricesAtLeastStopLevel ==
    PricesResolved
    => LET a == calc.args
           sl == calc.value[1]
           tp == calc.value[2]
       IN  /\ ~IsNone(a.sl_config.pips) =>
                sl = Some(PipPrice(a.side, "stop", a.entry_price,
                                   AtLeastStopLevel(Val(a.sl_config.pips))))
           /\ ~IsNone(a.tp_config.pips) =>
                tp = Some(PipPrice(a.side, "target", a.entry_price,
                                   AtLeastStopLevel(Val(a.tp_config.pips))))
           /\ (~IsNone(a.sl_config.pips) /\ ~IsNone(a.tp_config.pips)) =>
                IF a.side = "BUY"
                THEN RLt(Val(sl), a.entry_price) /\ RLt(a.entry_price, Val(tp))
                ELSE RLt(Val(tp), a.entry_price) /\ RLt(a.entry_price, Val(sl))
           /\ (IsNone(a.sl_config.pips) /\ ~IsNone(a.sl_config.price)) =>
                sl = Some(PushedOut(a.side, "stop", a.entry_price,
                                    Val(a.sl_config.price)))

\* a SELL with 3 stop pips, 40 target pips and an explicit stop price as well
C17_Witness ==
    /\ PricesResolved /\ calc.args.side = "SELL"
    /\ calc.args.sl_config.pips = Some(RInt(3))
    /\ ~IsNone(calc.args.sl_config.price)
    /\ calc.args.tp_config.pips = Some(RInt(40))
    /\ calc.value[1] = Some(RAdd(calc.args.entry_price, MinDistance))

\* C18: a resolved stop or target is at least MinDistance away from the
\* entry: it is the value its spec names when that is far enough, and
\* otherwise lies at exactly MinDistance on the side the order side implies.
C18_MinDistance ==
    PricesResolved
    => LET a == calc.args
           sl == calc.value[1]
           tp == calc.value[2]
           named_tp == resolve_tp(Val(a.symbol_info), a.side, a.entry_price,
                                  a.tp_config, NamedStop)
       IN  /\ IsNone(sl) <=> IsNone(NamedStop)
           /\ ~IsNone(sl) =>
                /\ RLe(MinDistance, RAbs(RSub(a.entry_price, Val(sl))))
                /\ sl = Some(PushedOut(a.side, "stop", a.entry_price,
                                       Val(NamedStop)))
           /\ IsNone(tp) <=> IsNone(named_tp)
           /\ ~IsNone(tp) =>
                /\ RLe(MinDistance, RAbs(RSub(a.entry_price, Val(tp))))
                /\ tp = Some(PushedOut(a.side, "target", a.entry_price,
                                       Val(named_tp)))

\* BUY at 1.10000 with the explicit stop 1.09998: the stop becomes 1.09995
C18_Witness ==
    /\ PricesResolved /\ calc.args.side = "BUY"
    /\ IsNone(calc.args.sl_config.pips)
    /\ calc.args.sl_config.price = Some(Rat(109998, 100000))
    /\ calc.value[1] = Some(Rat(109995, 100000))

\* check_margin_sufficient was called directly and found symbol and account
MarginChecked ==
    /\ calc.fn = "check_margin_sufficient"
    /\ ~IsNone(calc.args.margin_info) /\ ~IsNone(calc.args.account_summary)

\* the required margin of the call by the margin mode of its symbol
RequiredMargin ==
    LET m == Val(calc.args.margin_info)
        lot == calc.args.volume
    IN  IF m.margin_mode = "FOREX"
        THEN RDiv(RMul(m.contract_size, lot),
                  Val(calc.args.account_summary).leverage)
        ELSE IF m.margin_mode = "FUTURES"
        THEN RMul(RMul(m.contract_size, lot), m.margin_rate)
        ELSE RMul(m.margin_required, lot)

\* C19: the margin check reports sufficient exactly when free_margin >=
\* required margin, the required margin being contract_size * lot / leverage
\* for forex, contract_size * lot * margin_rate for futures and
\* margin_required * lot for any other mode.
C19_MarginSufficient ==
    MarginChecked
    => (calc.value <=>
          RLe(RequiredMargin, Val(calc.args.account_summary).free_margin))

\* a forex order whose required margin equals the free margin: sufficient
C19_Witness ==
    /\ MarginChecked
    /\ Val(calc.args.margin_info).margin_mode = "FOREX"
    /\ RequiredMargin = Val(calc.args.account_summary).free_margin
    /\ calc.value = TRUE

\* C20: a key whose record was written and is younger than the retention
\* window is rejected, also when other calls insert and sweep concurrently.
C20_SweepKeepsRecords ==
    \A c \in Threads :
        (~IsNone(signal[c]) /\ Key(c) # "" /\ PriorLive(c))
        => ~hist[c].admitted /\ pc[c] = "done"

\* C21: the step that rejects a call as a duplicate leaves the idempotency
\* cache as it was, the first-seen stamp of the rejected key included, and
\* the rejected call has made no broker call and no order_send.
C21_DuplicateNoEffect ==
    [][\A c \in Threads :
          (pc[c] = "validate" /\ pc'[c] = "done"
             /\ result'[c] = Some(Failed(MsgDuplicate)))
          => /\ idempotency_cache' = idempotency_cache
             /\ hist'[c].broker_calls = 0 /\ hist'[c].sends = 0
             /\ ~hist'[c].recorded]_vars

\* a call rejected as a duplicate while the record of its key, written
\* earlier, is still the one in the cache
C21_Witness ==
    \E c \in Threads :
        /\ IsDuplicate(c) /\ hist[c].broker_calls = 0
        /\ Has(idempotency_cache, Key(c))
        /\ Val(idempotency_cache[Key(c)]) < now

\* C22: the stop returned is the named stop under the minimum-distance rule,
\* whatever the target spec; the target returned is the named target under
\* the rule, whatever happened to the stop; a target named by a risk:reward
\* ratio is computed from the stop as named, before the rule moved it.
C22_ClampsIndependent ==
    PricesResolved
    => LET a == calc.args
           tp == a.tp_config
       IN  /\ calc.value[1] =
                 IF IsNone(NamedStop) THEN None
                 ELSE Some(PushedOut(a.side, "stop", a.entry_price,
                                     Val(NamedStop)))
           /\ (IsNone(tp.pips) /\ IsNone(tp.price)
                 /\ ~IsNone(tp.risk_reward_ratio) /\ ~IsNone(NamedStop))
              => calc.value[2] =
                    Some(PushedOut(a.side, "target", a.entry_price,
                           RatioPrice(a.side, a.entry_price, Val(NamedStop),
                                      Val(tp.risk_reward_ratio))))
           /\ ~IsNone(tp.pips)
              => calc.value[2] =
                    Some(PushedOut(a.side, "target", a.entry_price,
                           PipPrice(a.side, "target", a.entry_price,
                                    Val(tp.pips))))

\* BUY at 1.10000, stop 1.09998 and ratio 2: the stop moves to 1.09995, the
\* target is computed from 1.09998 (1.10004) and then moves to 1.10005
C22_Witness ==
    /\ PricesResolved /\ calc.args.side = "BUY"
    /\ calc.args.sl_config = [pips |-> None, price |-> Some(Rat(109998, 100000))]
    /\ calc.args.tp_config =
          [pips |-> None, price |-> None, risk_reward_ratio |-> Some(RInt(2))]
    /\ calc.value = <<Some(Rat(109995, 100000)), Some(Rat(110005, 100000))>>

\* C23: a call with a non-empty key is rejected as a duplicate only if a
\* record of that key younger than the retention window exists.
C23_RejectedOnlyIfLive ==
    \A c \in Threads :
        (IsDuplicate(c) /\ Key(c) # "") => PriorLive(c)

\* the call returned a success
IsSuccess(c) == IsDone(c) /\ Val(result[c]).success

\* C24: a success carries order id, position id, executed price and lot
\* size and no error message; a failure carries a non-empty error message
\* and no order id; the lot size, stop and target of a success are those of
\* the order request.
C24_ResultConsistent ==
    \A c \in Threads :
        IsDone(c)
        => LET r == Val(result[c])
           IN  /\ r.success <=>
                    /\ ~IsNone(r.order_id) /\ ~IsNone(r.position_id)
                    /\ ~IsNone(r.executed_price) /\ ~IsNone(r.lot_size)
                    /\ IsNone(r.error_message)
               /\ ~r.success =>
                    /\ ~IsNone(r.error_message) /\ Val(r.error_message) # ""
                    /\ IsNone(r.order_id)
               /\ r.success =>
                    /\ hist[c].sends = 1
                    /\ r.lot_size = Some(Val(hist[c].request).volume)
                    /\ or_zero(r.sl_price) = Val(hist[c].request).sl
                    /\ or_zero(r.tp_price) = Val(hist[c].request).tp

\* a fill of a SELL with a stop and a risk:reward target
C24_Witness ==
    \E c \in Threads :
        /\ IsSuccess(c) /\ Val(signal[c]).side = "SELL"
        /\ ~IsNone(Val(result[c]).sl_price)
        /\ ~IsNone(Val(result[c]).tp_price)

Positions == mock_client.positions
IsCall(call, fn) == call.fn = fn
Returned(call) == Val(call.value)

\* C25: in the mock engine the tickets of the open positions are pairwise
\* distinct and were all handed out by order_counter; a successful
\* execute_signal appends exactly one position, its ticket the order_counter
\* value of the call, held by no position before; a rejected execute_signal
\* leaves positions and counter as they were.
C25_TicketsDistinct ==
    /\ [](/\ \A i, j \in 1..Len(Positions) :
                i # j => Positions[i].ticket # Positions[j].ticket
          /\ \A i \in 1..Len(Positions) :
                /\ Positions[i].ticket >= FIRST_ORDER
                /\ Positions[i].ticket < mock_client.order_counter)
    /\ [][IsCall(calc', "mock.execute_signal") =>
            IF Returned(calc').success
            THEN /\ Len(Positions') = Len(Positions) + 1
                 /\ SubSeq(Positions', 1, Len(Positions)) = Positions
                 /\ Positions'[Len(Positions')].ticket
                      = mock_client.order_counter
                 /\ Returned(calc').order_id
                      = Some(mock_client.order_counter)
                 /\ \A i \in 1..Len(Positions) :
                      Positions[i].ticket # mock_client.order_counter
            ELSE mock_client' = mock_client]_vars

\* two positions are open and the last call, an execute_signal with a key
\* used before, was rejected
C25_Witness ==
    /\ Len(Positions) = 2
    /\ IsCall(calc, "mock.execute_signal")
    /\ Returned(calc) = Failed(MsgDuplicate)

\* C26: mock close_position of an open ticket with no volume, or with a
\* volume not smaller than the position's, removes that position and leaves
\* the others as they were, in order; with a smaller volume it reduces that
\* position's volume by it and changes nothing else; both return True; of a
\* ticket that is not open it returns False and changes nothing.
C26_CloseRemovesExactlyOne ==
    [][IsCall(calc', "mock.close_position") =>
         LET ticket == calc'.args[1]
             volume == calc'.args[2]
             i == IndexOfTicket(Positions, ticket)
         IN  /\ mock_client'.order_counter = mock_client.order_counter
             /\ mock_idempotency_cache' = mock_idempotency_cache
             /\ IF i = 0
                THEN Returned(calc') = FALSE /\ Positions' = Positions
                ELSE /\ Returned(calc') = TRUE
                     /\ IF IsNone(volume)
                           \/ ~RLt(Val(volume), Positions[i].volume)
                        THEN Positions' =
                               SubSeq(Positions, 1, i - 1)
                                 \o SubSeq(Positions, i + 1, Len(Positions))
                        ELSE /\ Len(Positions') = Len(Positions)
                             /\ \A j \in 1..Len(Positions) : j # i =>
                                  Positions'[j] = Positions[j]
                             /\ Positions'[i] =
                                  [Positions[i] EXCEPT
                                     !.volume = RSub(@, Val(volume))]]_vars

\* one signal was executed and its ticket closed with no volume: no position
\* is open
C26_Witness ==
    /\ IsCall(calc, "mock.close_position")
    /\ calc.args = <<FIRST_ORDER, None>>
    /\ Returned(calc) = TRUE
    /\ mock_client.order_counter = FIRST_ORDER + 1
    /\ Positions = <<>>

\* C27: the position calls apply no risk logic.  Those of the real engine
\* leave the idempotency cache alone; modify_position sends the given stop
\* and target as given and, for one left out, the position's current one;
\* close_position sends the given volume, or the position's; for a ticket
\* the broker does not hold, both return False and send nothing.  Those of
\* the mock leave its idempotency cache and order counter alone;
\* modify_position writes the given stop and target as given, keeps what was
\* left out, and changes nothing else; for a ticket not open it returns
\* False and changes nothing; get_positions changes nothing.
C27_PassThrough ==
    [][/\ (IsCall(calc', "modify_position") \/ IsCall(calc', "close_position")
             \/ IsCall(calc', "get_positions"))
          => /\ idempotency_cache' = idempotency_cache
             /\ admits' = admits
             /\ IsNone(calc'.position)
                  => (IsNone(calc'.sent)
                        /\ (IsCall(calc', "get_positions")
                              \/ Returned(calc') = FALSE))
       /\ IsCall(calc', "modify_position") /\ ~IsNone(calc'.position)
          => LET sl == calc'.args[2]
                 tp == calc'.args[3]
                 pos == Val(calc'.position)
                 sent == Val(calc'.sent)
             IN  /\ sent.position = calc'.args[1]
                 /\ sent.sl = IF IsNone(sl) THEN pos.sl ELSE Val(sl)
                 /\ sent.tp = IF IsNone(tp) THEN pos.tp ELSE Val(tp)
       /\ IsCall(calc', "close_position") /\ ~IsNone(calc'.position)
          => LET volume == calc'.args[2]
                 pos == Val(calc'.position)
                 sent == Val(calc'.sent)
             IN  /\ sent.position = calc'.args[1]
                 /\ sent.volume = IF IsNone(volume) THEN pos.volume
                                  ELSE Val(volume)
       /\ (IsCall(calc', "mock.modify_position")
             \/ IsCall(calc', "mock.close_position")
             \/ IsCall(calc', "mock.get_positions"))
          => /\ mock_idempotency_cache' = mock_idempotency_cache
             /\ mock_client'.order_counter = mock_client.order_counter
       /\ IsCall(calc', "mock.get_positions") => mock_client' = mock_client
       /\ IsCall(calc', "mock.modify_position")
          => LET sl == calc'.args[2]
                 tp == calc'.args[3]
                 i == IndexOfTicket(Positions, calc'.args[1])
             IN  IF i = 0
                 THEN Returned(calc') = FALSE /\ mock_client' = mock_client
                 ELSE /\ Returned(calc') = TRUE
                      /\ Len(Positions') = Len(Positions)
                      /\ \A j \in 1..Len(Positions) : j # i =>
                           Positions'[j] = Positions[j]
                      /\ Positions'[i] =
                           [Positions[i] EXCEPT
                              !.sl = IF IsNone(sl) THEN @ ELSE Val(sl),
                              !.tp = IF IsNone(tp) THEN @ ELSE Val(tp)]]_vars

\* the real modify_position was called for a position with a stop, the stop
\* left out and a target given: the request carries the position's stop and
\* the given target
C27_Witness ==
    /\ IsCall(calc, "modify_position")
    /\ IsNone(calc.args[2])
    /\ ~IsNone(calc.args[3])
    /\ ~IsNone(calc.sent)
    /\ Val(calc.sent).sl = Val(calc.position).sl
    /\ Val(calc.sent).sl # RZero
    /\ Val(calc.sent).tp = Val(calc.args[3])

(***************************************************************************)
(* C28: validate_nonce without Redis.  A nonce of fewer than 16 characters *)
(* is rejected and the cache is left as it was, so it is never recorded.   *)
(* A nonce of 16 characters or more that has no record is accepted and     *)
(* recorded with the time of the call; one that has a record is rejected,  *)
(* whatever other nonces were accepted; and no step removes or rewrites a  *)
(* record younger than the 300 s TTL, so every reuse within the TTL finds  *)
(* the record and is rejected.  (A step that leaves the clock alone and    *)
(* has a validate_nonce call in calc is that call.)                        *)
(***************************************************************************)
C28_NonceReplay ==
    /\ [](\A n \in Nonces :
             Len(n) < NONCE_MIN_LENGTH => IsNone(nonce_cache[n]))
    /\ [][/\ (IsCall(calc', "validate_nonce") /\ now' = now) =>
               LET n == calc'.args[1]
               IN  IF Len(n) < NONCE_MIN_LENGTH
                   THEN Returned(calc') = FALSE /\ nonce_cache' = nonce_cache
                   ELSE IF IsNone(nonce_cache[n])
                   THEN Returned(calc') = TRUE /\ nonce_cache'[n] = Some(now)
                   ELSE Returned(calc') = FALSE
          /\ \A n \in Nonces :
               (~IsNone(nonce_cache[n])
                  /\ now' - Val(nonce_cache[n]) < nonce_ttl)
               => nonce_cache'[n] = nonce_cache[n]]_vars

\* a nonce was reused less than 300 s after its first use and rejected,
\* after another nonce had been accepted in between
C28_Witness ==
    /\ IsCall(calc, "validate_nonce")
    /\ Returned(calc) = FALSE
    /\ Len(calc.args[1]) >= NONCE_MIN_LENGTH
    /\ now - Val(nonce_cache[calc.args[1]]) > 0
    /\ now - Val(nonce_cache[calc.args[1]]) < nonce_ttl
    /\ \E m \in Nonces :
          /\ m # calc.args[1]
          /\ ~IsNone(nonce_cache[m])
          /\ Val(nonce_cache[m]) > Val(nonce_cache[calc.args[1]])

(***************************************************************************)
(* C30: while less than idempotency_ttl has passed since the first call,   *)
(* the mock guard and the real guard gave the same admit/reject answer to  *)
(* the last key (empty or not) and hold records of the same keys.          *)
(***************************************************************************)
RecordedKeys(cache) == {k \in Keys : Has(cache, k)}

C30_FaithfulDouble ==
    now < idempotency_ttl =>
        /\ RecordedKeys(mock_idempotency_cache)
             = RecordedKeys(idempotency_cache)
        /\ IsCall(calc, "validate_idempotency")
             => calc.mock_value = calc.value

\* within the window both guards rejected a key they had admitted before,
\* and both hold the two keys
C30_Witness ==
    /\ IsCall(calc, "validate_idempotency")
    /\ now > 0 /\ now < idempotency_ttl
    /\ calc.value = Some(FALSE)
    /\ calc.mock_value = Some(FALSE)
    /\ RecordedKeys(idempotency_cache) = Keys \ {""}
    /\ RecordedKeys(mock_idempotency_cache) = Keys \ {""}
====
